---- MODULE Spec2Model ----
(***************************************************************************)
(* Client-side script of the Reflex Interactive website: the fetch cache,  *)
(* the list renderers, the search index and the search, as they run in one *)
(* page view.  The page loads one script file; src/src/js/app.js holds two *)
(* script blocks (two async IIFEs), each with its own appState, and both   *)
(* run on the same document.  A block's revision decides how its functions *)
(* behave.                                                                 *)
(***************************************************************************)
EXTENDS Integers, Sequences, FiniteSets, TLC

\* ------------------------------------------------------------------ bounds
\* Number of debounced search handler runs in one page view.
MaxSearches == 2
\* Largest `limit` argument handed to a list renderer by a direct call.
MaxLimit == 3
\* Number of direct calls of the search.
MaxCalls == 1
\* Number of input events on the search box in one page view.
MaxInputs == 3
\* Number of clock ticks the debounce window is divided into.
DebounceTicks == 2
\* Number of scroll events in one page view.
MaxScrolls == 3
\* Number of clock ticks the throttle window is divided into.
ThrottleTicks == 2
\* Number of clock ticks in one page view.
MaxClock == 4
\* Number of clicks on the controls of the mobile menu in one page view.
MaxClicks == 4

\* ------------------------------------------------------- program constants
HOME_PAGE_ITEM_COUNT == 3
CACHE_BUST_ENABLED == TRUE
SEARCH_RESULT_CAP == 8
SNIPPET_LENGTH == 100
\* window.scrollY > 50
SCROLL_THRESHOLD == 50

\* ------------------------------------------------------------------ values
NoId == 0
\* A null query (search(null)): a value no typed text equals.
NullQuery == <<"null">>
\* count = null / limit = null: the default of a list renderer's second parameter.
NoLimit == 0 - 1

\* Script blocks: A and B are the two IIFEs of src/src/js/app.js, L is
\* src/app.js, P0 is src/unnamed/part_000, P1 is src/unnamed/part_001, P3 is
\* src/unnamed/part_003.
Blocks == {"A", "B", "L", "P0", "P1", "P3"}
Pages == {"main", "legacy", "part0", "part1", "part3"}
\* "article" is the newswire page asked for with an id parameter, "game" the
\* game details page.
Routes == {"home", "games", "news", "other", "article", "game"}
DetailRoutes == {"article", "game"}

\* The id parameter of the address: absent, or its text.
NoParam == <<>>
UrlIds == {NoParam, <<"1">>, <<"0","2">>, <<"9">>}

BlocksOf(p) ==
  CASE p = "main" -> {"A", "B"}
    [] p = "legacy" -> {"L"}
    [] p = "part0" -> {"P0"}
    [] p = "part1" -> {"P1"}
    [] p = "part3" -> {"P3"}

\* Revisions whose fetchData keeps appState.dataCache, and that have a search.
HasCache(b) == b \in {"A", "B", "P0"}
HasSearch(b) == b \in {"A", "B", "P0"}

\* config.GIST_URLS
GIST_URLS == {"NEWS", "GAMES"}

\* ------------------------------------------------------------ text helpers
\* Strings are sequences of one-character strings.
UpperChars == <<"A","B","C","D","E","F","G","H","I","J","K","L","M",
                "N","O","P","Q","R","S","T","U","V","W","X","Y","Z">>
LowerChars == <<"a","b","c","d","e","f","g","h","i","j","k","l","m",
                "n","o","p","q","r","s","t","u","v","w","x","y","z">>

LowerChar(c) ==
  IF \E i \in 1..26 : UpperChars[i] = c
    THEN LowerChars[CHOOSE i \in 1..26 : UpperChars[i] = c]
    ELSE c

\* String.prototype.toLowerCase
ToLowerCase(s) == [i \in 1..Len(s) |-> LowerChar(s[i])]

IsSpace(c) == c = " "

\* String.prototype.trim: strips the white space at both ends.
Trim(s) ==
  LET keep == {i \in 1..Len(s) : ~IsSpace(s[i])}
  IN IF keep = {} THEN <<>>
     ELSE LET lo == CHOOSE i \in keep : \A j \in keep : i <= j
              hi == CHOOSE i \in keep : \A j \in keep : j <= i
          IN SubSeq(s, lo, hi)

\* String.prototype.includes
Includes(s, q) ==
  \E i \in 0..(Len(s) - Len(q)) : \A j \in 1..Len(q) : s[i + j] = q[j]

\* Array/String.prototype.slice(0, n) for n >= 0.
Slice0(s, n) == SubSeq(s, 1, IF n < Len(s) THEN n ELSE Len(s))

\* Array.prototype.filter
RECURSIVE Filter(_, _)
Filter(s, q) ==
  IF s = <<>> THEN <<>>
  ELSE IF Includes(Head(s).searchable, q)
         THEN <<Head(s)>> \o Filter(Tail(s), q)
         ELSE Filter(Tail(s), q)

\* ---------------------------------------------------------- remote records
NewsRec(i, t, s) == [id |-> i, title |-> t, summary |-> s]
\* A game record: price is held in cents (1905 is the number 19.05), and an
\* empty download_url is an absent one.
GameRec(i, t, d, p, dl) ==
  [id |-> i, title |-> t, description |-> d, price |-> p, download_url |-> dl]

n1 == NewsRec(1, <<"E","v","e">>, <<"o","n","e">>)
n2 == NewsRec(2, <<"G","a","l","e">>, <<"E">>)
n3 == NewsRec(3, <<"N","e","t">>, <<"t","w","o">>)
n4 == NewsRec(4, <<"A","p","e">>, <<"x">>)
g1 == GameRec(1, <<"G","e","m">>, <<"r","e","d">>, 0, "gem.zip")
g2 == GameRec(2, <<"A","g","e">>, <<"G","A","M","E">>, 0, "")
g3 == GameRec(3, <<"E","l","f">>, <<"o","k">>, 1905, "")

\* What the remote store may answer for each document.
NewsPayloads == { <<n1, n2, n3, n4>>, <<n2, n1>> }
GamesPayloads == { <<g1, g2, g3>> }
PayloadsOf(u) == IF u = "NEWS" THEN NewsPayloads ELSE GamesPayloads

\* Ways a request can end: a 2xx response with a JSON body, a non-2xx
\* response, a transport failure, a body that does not parse as JSON.
Failures == {"http", "network", "parse"}
Outcomes(u) ==
  {[ok |-> TRUE, why |-> "ok", data |-> p] : p \in PayloadsOf(u)}
    \cup {[ok |-> FALSE, why |-> f, data |-> <<>>] : f \in Failures}

\* What the user types into the search box, and the arguments of a direct
\* call of the search.
Queries == { <<" ">>, <<" ","E">> }
Arguments == Queries \cup { <<>>, NullQuery, <<"G","a">> }

\* --------------------------------------------------------- search entries
StaticIndexA ==
  << [url |-> [path |-> "/", id |-> NoId], title |-> <<"H","o","m","e">>,
      snippet |-> <<"R","e","f","l","e","x"," ","I","n","t","e","r","a","c","t","i","v","e"," ","-"," ","i","n","d","e","p","e","n","d","e","n","t"," ","g","a","m","e"," ","d","e","v","e","l","o","p","m","e","n","t">>,
      searchable |-> <<"h","o","m","e"," ","r","e","f","l","e","x"," ","i","n","t","e","r","a","c","t","i","v","e"," ","i","n","d","e","p","e","n","d","e","n","t"," ","g","a","m","e"," ","d","e","v","e","l","o","p","m","e","n","t">>],
     [url |-> [path |-> "/games", id |-> NoId], title |-> <<"O","u","r"," ","G","a","m","e","s">>,
      snippet |-> <<"B","r","o","w","s","e"," ","o","u","r"," ","f","u","l","l"," ","c","a","t","a","l","o","g"," ","o","f"," ","g","a","m","e","s">>,
      searchable |-> <<"o","u","r"," ","g","a","m","e","s"," ","b","r","o","w","s","e"," ","f","u","l","l"," ","c","a","t","a","l","o","g">>],
     [url |-> [path |-> "/newswire", id |-> NoId], title |-> <<"N","e","w","s","w","i","r","e">>,
      snippet |-> <<"L","a","t","e","s","t"," ","n","e","w","s"," ","a","n","d"," ","a","n","n","o","u","n","c","e","m","e","n","t","s">>,
      searchable |-> <<"n","e","w","s","w","i","r","e"," ","l","a","t","e","s","t"," ","n","e","w","s"," ","a","n","n","o","u","n","c","e","m","e","n","t","s">>],
     [url |-> [path |-> "/about", id |-> NoId], title |-> <<"A","b","o","u","t"," ","U","s">>,
      snippet |-> <<"L","e","a","r","n"," ","a","b","o","u","t"," ","R","e","f","l","e","x"," ","I","n","t","e","r","a","c","t","i","v","e">>,
      searchable |-> <<"a","b","o","u","t"," ","u","s"," ","l","e","a","r","n"," ","r","e","f","l","e","x"," ","i","n","t","e","r","a","c","t","i","v","e">>],
     [url |-> [path |-> "/contact", id |-> NoId], title |-> <<"C","o","n","t","a","c","t">>,
      snippet |-> <<"G","e","t"," ","i","n"," ","t","o","u","c","h"," ","w","i","t","h"," ","o","u","r"," ","t","e","a","m">>,
      searchable |-> <<"c","o","n","t","a","c","t"," ","g","e","t"," ","i","n"," ","t","o","u","c","h"," ","t","e","a","m">>] >>

StaticIndexB ==
  << [url |-> [path |-> "/", id |-> NoId], title |-> <<"H","o","m","e">>,
      snippet |-> <<"R","e","f","l","e","x"," ","I","n","t","e","r","a","c","t","i","v","e"," ","h","o","m","e","p","a","g","e">>,
      searchable |-> <<"h","o","m","e"," ","r","e","f","l","e","x">>],
     [url |-> [path |-> "/games", id |-> NoId], title |-> <<"G","a","m","e","s">>,
      snippet |-> <<"B","r","o","w","s","e"," ","o","u","r"," ","g","a","m","e","s">>,
      searchable |-> <<"g","a","m","e","s">>],
     [url |-> [path |-> "/newswire", id |-> NoId], title |-> <<"N","e","w","s","w","i","r","e">>,
      snippet |-> <<"L","a","t","e","s","t"," ","n","e","w","s">>,
      searchable |-> <<"n","e","w","s","w","i","r","e"," ","n","e","w","s">>],
     [url |-> [path |-> "/about", id |-> NoId], title |-> <<"A","b","o","u","t">>,
      snippet |-> <<"A","b","o","u","t"," ","U","s">>,
      searchable |-> <<"a","b","o","u","t"," ","u","s">>],
     [url |-> [path |-> "/contact", id |-> NoId], title |-> <<"C","o","n","t","a","c","t">>,
      snippet |-> <<"C","o","n","t","a","c","t"," ","U","s">>,
      searchable |-> <<"c","o","n","t","a","c","t">>] >>

StaticIndexP0 ==
  << [url |-> [path |-> "/games", id |-> NoId], title |-> <<"O","u","r"," ","G","a","m","e","s">>,
      snippet |-> <<"B","r","o","w","s","e"," ","o","u","r"," ","f","u","l","l"," ","c","a","t","a","l","o","g"," ","o","f"," ","g","a","m","e","s">>,
      searchable |-> <<"o","u","r"," ","g","a","m","e","s"," ","b","r","o","w","s","e"," ","f","u","l","l"," ","c","a","t","a","l","o","g">>],
     [url |-> [path |-> "/newswire", id |-> NoId], title |-> <<"N","e","w","s","w","i","r","e">>,
      snippet |-> <<"L","a","t","e","s","t"," ","n","e","w","s"," ","a","n","d"," ","a","n","n","o","u","n","c","e","m","e","n","t","s">>,
      searchable |-> <<"n","e","w","s","w","i","r","e"," ","l","a","t","e","s","t"," ","n","e","w","s"," ","a","n","n","o","u","n","c","e","m","e","n","t","s">>],
     [url |-> [path |-> "/about", id |-> NoId], title |-> <<"A","b","o","u","t"," ","U","s">>,
      snippet |-> <<"L","e","a","r","n"," ","a","b","o","u","t"," ","R","e","f","l","e","x"," ","I","n","t","e","r","a","c","t","i","v","e">>,
      searchable |-> <<"a","b","o","u","t"," ","u","s"," ","l","e","a","r","n"," ","r","e","f","l","e","x"," ","i","n","t","e","r","a","c","t","i","v","e">>],
     [url |-> [path |-> "/contact", id |-> NoId], title |-> <<"C","o","n","t","a","c","t">>,
      snippet |-> <<"G","e","t"," ","i","n"," ","t","o","u","c","h"," ","w","i","t","h"," ","o","u","r"," ","t","e","a","m">>,
      searchable |-> <<"c","o","n","t","a","c","t"," ","g","e","t"," ","i","n"," ","t","o","u","c","h"," ","t","e","a","m">>] >>


StaticIndex(b) ==
  CASE b = "A" -> StaticIndexA
    [] b = "B" -> StaticIndexB
    [] OTHER -> StaticIndexP0

\* The entry buildSearchIndex pushes for a news article.
NewsEntry(item) ==
  [url |-> [path |-> "/newswire", id |-> item.id],
   title |-> item.title,
   snippet |-> Slice0(item.summary, SNIPPET_LENGTH),
   searchable |-> ToLowerCase(item.title \o <<" ">> \o item.summary)]

\* The entry buildSearchIndex pushes for a game.
GameEntry(b, item) ==
  [url |-> [path |-> IF b = "P0" THEN "/game-details" ELSE "/games",
            id |-> item.id],
   title |-> item.title,
   snippet |-> Slice0(item.description, SNIPPET_LENGTH),
   searchable |-> ToLowerCase(item.title \o <<" ">> \o item.description)]

\* news.forEach(item => index.push(...)) / games.forEach(...)
EntriesOf(b, u, data) ==
  [i \in 1..Len(data) |->
     IF u = "NEWS" THEN NewsEntry(data[i]) ELSE GameEntry(b, data[i])]

\* query?.trim()?.toLowerCase(); undefined for a null query.
NormalizeQuery(q) == IF q = NullQuery THEN NullQuery ELSE ToLowerCase(Trim(q))

\* A blank test that forgets to trim.
IsBlank_NoTrim(q) == q = NullQuery \/ q = <<>>

\* !normalizedQuery
IsBlank(q) == NormalizeQuery(q) = NullQuery \/ NormalizeQuery(q) = <<>>

\* A search that does not filter.
FilterResults_Unfiltered(index, q) == Slice0(index, SEARCH_RESULT_CAP)

\* A search that returns every match.
FilterResults_NoCap(index, q) == Filter(index, NormalizeQuery(q))

\* index.filter(item => item.searchable.includes(q)).slice(0, 8)
FilterResults(index, q) ==
  Slice0(Filter(index, NormalizeQuery(q)), SEARCH_RESULT_CAP)

\* getCacheBustedUrl / addCacheBuster: whether "?t=<now>" is appended.
getCacheBustedUrl(url) == CACHE_BUST_ENABLED

\* fetchData's choice of the request URL for `url`.
FetchUrlBusted(b, url) ==
  IF b \in {"A", "B"}
    THEN IF url \in GIST_URLS THEN FALSE ELSE getCacheBustedUrl(url)
    ELSE getCacheBustedUrl(url)

\* ---------------------------------------------------------------- the page
ContainerIds ==
  {"latest-news-container", "news-container",
   "latest-games-container", "full-games-container"}
SpinnerIds ==
  {"homepage-loading-spinner", "loading-spinner",
   "homepage-games-loading-spinner", "games-loading-spinner"}

\* The list containers present in the document of each route.
ContainersOn(r) ==
  CASE r = "home" -> {"latest-news-container", "latest-games-container"}
    [] r = "games" -> {"full-games-container"}
    [] r = "news" -> {"news-container"}
    [] OTHER -> {}

\* The containers a source's list is rendered into.
ContainersFor(u) ==
  IF u = "NEWS" THEN {"latest-news-container", "news-container"}
  ELSE {"latest-games-container", "full-games-container"}

IsHomeContainer(c) == c \in {"latest-news-container", "latest-games-container"}

\* spinnerId of renderNewsList / renderGameList (container.id.includes("latest"))
SpinnerFor(u, c) ==
  IF u = "NEWS"
    THEN IF IsHomeContainer(c) THEN "homepage-loading-spinner" ELSE "loading-spinner"
    ELSE IF IsHomeContainer(c) THEN "homepage-games-loading-spinner"
                               ELSE "games-loading-spinner"

\* -------------------------------------------------------- shared components
\* The components loadComponent fetches into their placeholders.
Components == {"navbar", "search", "footer"}

\* The loads each revision starts when its script runs.
CompsOf(b) ==
  CASE b \in {"A", "B", "P0"} -> {"navbar", "search", "footer"}
    [] b \in {"L", "P1"} -> {"navbar", "footer"}
    [] OTHER -> {"footer"}

\* Revisions whose initialisation awaits Promise.all of the loads before it
\* dispatches the route; part_001 and part_003 dispatch at once.
AwaitsComponents(b) == b \in {"A", "B", "L", "P0"}

\* Revisions whose loader tests response.ok.
ChecksStatus(b) == b \in {"A", "B", "P0", "P3"}

\* How the fetch of a component can end: 2xx, non-2xx, transport failure.
LoadOutcomes == {"ok", "http", "network"}

NotLoaded == [pc |-> "none", failed |-> FALSE, wrote |-> "none", called |-> FALSE]
Loading == [NotLoaded EXCEPT !.pc = "await"]

\* loadComponent after its fetch settled: what it wrote into the
\* placeholder and whether it invoked the callback.
AfterLoad(b, out) ==
  IF out = "ok"
    THEN [pc |-> "done", failed |-> FALSE, wrote |-> "component", called |-> TRUE]
  ELSE IF out = "http" /\ ~ChecksStatus(b)
    THEN [pc |-> "done", failed |-> TRUE, wrote |-> "errorpage", called |-> TRUE]
  ELSE [pc |-> "done", failed |-> TRUE, wrote |-> "message", called |-> FALSE]

\* -------------------------------------------------------------------- forms
\* The forms handleFormSubmission is attached to.
FormIds == {"main-contact-form", "footer-form"}

\* A form as served, no form submitted yet; location is the document shown.
FreshForm ==
  [id |-> "none", content |-> "fields", disabled |-> FALSE, label |-> "Send",
   location |-> "page"]

\* A handleFormSubmission call: status of its response, requests it sent.
IdleHandler == [pc |-> "idle", status |-> "none", sent |-> 0]

\* Revisions that leave the page after a 2xx answer to the main contact form.
RedirectsMain(b) == b = "P3"

\* ----------------------------------------------------------- search results
\* The results container as served: hidden and empty.  `of` is the run of
\* the handler whose results were rendered last, `by` the runs the input
\* handler started, `dismissed` whether Escape or a click outside came
\* after the last input event.
EmptyPanel ==
  [shown |-> FALSE, list |-> <<>>, of |-> 0, by |-> {}, dismissed |-> FALSE]

\* renderResults(results): the list is replaced; the container is hidden
\* when there are no results and shown otherwise.
renderResults(p, k, results) ==
  [p EXCEPT !.list = results, !.shown = results # <<>>, !.of = k]

\* The input handler continues after await searchIndex(...) of run k.
HandlerResumes(p, k, s) ==
  IF s.pc = "done" /\ k \in p.by THEN renderResults(p, k, s.result) ELSE p

\* ---------------------------------------------------------------- debounce
\* timeoutId before the first call of the debounced function.
NoTimer == 0

\* -------------------------------------------------------------------- links
\* The href of the link in the card a list renderer creates for a record.
CardHref(b, u, rec) ==
  [path |-> IF b = "P0"
              THEN IF u = "NEWS" THEN "/newswire.html" ELSE "/game-details.html"
              ELSE IF u = "NEWS" THEN "/newswire" ELSE "/games",
   id |-> rec.id]

\* The characters of a pathname.
Spell(path) ==
  CASE path = "/newswire" -> <<"/","n","e","w","s","w","i","r","e">>
    [] path = "/newswire.html" ->
         <<"/","n","e","w","s","w","i","r","e",".","h","t","m","l">>
    [] path = "/games" -> <<"/","g","a","m","e","s">>
    [] path = "/games.html" -> <<"/","g","a","m","e","s",".","h","t","m","l">>
    [] path = "/game-details" ->
         <<"/","g","a","m","e","-","d","e","t","a","i","l","s">>
    [] path = "/game-details.html" ->
         <<"/","g","a","m","e","-","d","e","t","a","i","l","s",".","h","t","m","l">>
    [] path = "/index.html" -> <<"/","i","n","d","e","x",".","h","t","m","l">>
    [] path = "/" -> <<"/">>
    [] OTHER -> <<"/","a","b","o","u","t">>

\* The branch the route dispatch of block b takes for an address: both
\* blocks of src/src/js/app.js compare the pathname, part_000 looks for the
\* file name in it.
RouteOf(b, url) ==
  LET hasId == url.id # NoId
      has(part) == Includes(Spell(url.path), Spell(part))
  IN IF b = "P0"
       THEN IF has("/game-details.html") THEN "game"
            ELSE IF has("/games.html") THEN "games"
            ELSE IF has("/newswire.html")
              THEN IF hasId THEN "article" ELSE "news"
            ELSE "home"
       ELSE IF url.path = "/games" /\ hasId THEN "game"
            ELSE IF url.path = "/games" THEN "games"
            ELSE IF url.path = "/newswire" /\ hasId THEN "article"
            ELSE IF url.path = "/newswire" THEN "news"
            ELSE IF url.path \in {"/", "/index.html"} THEN "home"
            ELSE "other"

\* ------------------------------------------------------------------ scroll
\* Revisions whose scroll listener is wrapped in throttle(..., 10).
Throttled(b) == b \in {"A", "B", "P0"}

\* Values of window.scrollY.
ScrollPositions == {0, 50, 51, 300}

\* The window before any scroll event: `now` is Date.now(), at least one
\* throttle window after the epoch, lastRan the closure variable of each
\* block's throttle, `last` what became of the last scroll event.
FreshScroll ==
  [y |-> 0, now |-> ThrottleTicks, events |-> 0, solid |-> FALSE,
   last |-> "none", lastRan |-> [b \in Blocks |-> 0]]

\* -------------------------------------------------------------- mobile menu
\* Revisions with a mobile menu; in block B the trigger opens the overlay
\* and the links close it, in the others the button toggles the menu and
\* the in-page anchors close it.
HasMenu(b) == b \in {"B", "L", "P1", "P3"}
TriggerToggles(b) == b \in {"L", "P1", "P3"}

\* Revisions whose anchor listener names toggleMobileMenu where the
\* declaration, a const inside the if block of the button, is out of scope.
CloserOutOfScope(b) == b = "P3"

\* The menu as served: closed, no click yet.
ClosedMenu == [open |-> FALSE, threw |-> FALSE, clicks |-> 0, last |-> "none"]

\* ------------------------------------------------------------------ reveal
\* Revisions with initScrollReveal / setupRevealAnimations.
HasReveal(b) == b \in {"A", "B", "P0"}

\* The elements followed: a heading of the page as served, and for each
\* list call of a block the cards it creates.
Heading == <<"page", "h1">>
Elements == {Heading} \cup ({"A", "B", "P0"} \X GIST_URLS)

\* An element: in the document?, has the class reveal-on-scroll?, has the
\* class visible?, the blocks whose observer observes it, the number of runs
\* of the reveal step on it.
FreshElement(e) ==
  [exists |-> e = Heading, hidden |-> FALSE, visible |-> FALSE,
   watching |-> {}, runs |-> 0]

\* appState.revealObserver: null in every block.
NoReveal ==
  [observer |-> [b \in Blocks |-> FALSE],
   els |-> [e \in Elements |-> FreshElement(e)]]

\* initScrollReveal of block b: the observer is created; every element the
\* selectors match gets the class reveal-on-scroll and is observed.
initScrollReveal(rv, b) ==
  IF ~HasReveal(b) THEN rv
  ELSE [observer |-> [rv.observer EXCEPT ![b] = TRUE],
        els |-> [e \in Elements |->
                   IF rv.els[e].exists
                     THEN [rv.els[e] EXCEPT !.hidden = TRUE,
                                            !.watching = @ \cup {b}]
                     ELSE rv.els[e]]]

\* A card that is created but not handed to the observer.
createCard_Unobserved(rv, b) ==
  [exists |-> TRUE, hidden |-> TRUE, visible |-> FALSE,
   watching |-> {}, runs |-> 0]

\* createNewsCard / createGameCard of block b: the card carries the class
\* reveal-on-scroll; appState.revealObserver?.observe(card).
createCard(rv, b) ==
  [exists |-> TRUE, hidden |-> TRUE, visible |-> FALSE,
   watching |-> IF rv.observer[b] THEN {b} ELSE {}, runs |-> 0]

\* The elements after the list calls of block b for the sources `made`
\* have created their cards.
WithCards(rv, b, made) ==
  IF ~HasReveal(b) THEN rv
  ELSE [rv EXCEPT !.els =
          [e \in Elements |->
             IF e[1] = b /\ e[2] \in made THEN createCard(rv, b)
             ELSE rv.els[e]]]

\* ------------------------------------------------------------ detail pages
\* The slot elements the detail renderers write, in the order they do.
ArticleSlots ==
  <<"article-title", "article-date", "article-image", "article-content">>

GameSlots(b) ==
  IF b = "P3"
    THEN <<"game-hero", "game-detail-title", "game-detail-cover",
           "game-detail-price", "purchase-download-btn",
           "game-detail-developer", "game-detail-publisher",
           "game-detail-genre", "game-detail-description",
           "game-detail-screenshots">>
    ELSE <<"game-hero", "game-detail-cover", "game-detail-title",
           "game-detail-developer", "game-detail-publisher",
           "game-detail-genre", "game-detail-description",
           "game-detail-price", "purchase-download-btn",
           "game-detail-screenshots">>

SlotsOf(b, kind) == IF kind = "article" THEN ArticleSlots ELSE GameSlots(b)

\* The slots a revision writes only if (element): every other slot is
\* written through document.getElementById(id).property = ...
Guarded(b, slot) ==
  \/ slot = "game-hero" /\ b \in {"A", "B", "L", "P0"}
  \/ slot = "game-detail-cover" /\ b = "P0"
  \/ slot = "game-detail-screenshots" /\ b \in {"A", "B", "L", "P0", "P1"}

\* Number.prototype.toString for a non-negative integer.
Digits == <<"0", "1", "2", "3", "4", "5", "6", "7", "8", "9">>
RECURSIVE ToDecimal(_)
ToDecimal(n) ==
  IF n < 10 THEN <<Digits[n + 1]>>
  ELSE ToDecimal(n \div 10) \o <<Digits[(n % 10) + 1]>>

\* Number(text) for a text of decimal digits.
RECURSIVE ToNumber(_)
ToNumber(s) ==
  IF s = <<>> THEN 0
  ELSE 10 * ToNumber(SubSeq(s, 1, Len(s) - 1))
         + ((CHOOSE i \in 1..10 : Digits[i] = s[Len(s)]) - 1)

\* item.id == id: a number against the text of the id parameter.
LooseEquals(n, s) == s # <<>> /\ ToNumber(s) = n

\* data.find(item => item.id == id): the first such record, if any.
FindById(data, id) ==
  LET hits == {i \in 1..Len(data) : LooseEquals(data[i].id, id)}
  IN IF hits = {} THEN [found |-> FALSE, at |-> 0]
     ELSE [found |-> TRUE, at |-> CHOOSE i \in hits : \A j \in hits : i <= j]

\* A toFixed(2) that does not pad the cents to two digits.
toFixed2_Unpadded(cents) ==
  ToDecimal(cents \div 100) \o <<".">> \o ToDecimal(cents % 100)

\* price.toFixed(2) for a price of whole cents.
toFixed2(cents) ==
  ToDecimal(cents \div 100) \o <<".">>
    \o <<Digits[((cents % 100) \div 10) + 1], Digits[(cents % 10) + 1]>>

\* game.price === 0 ? "FREE" : `$${game.price.toFixed(2)}`
PriceText(price) ==
  IF price = 0 THEN <<"F", "R", "E", "E">> ELSE <<"$">> \o toFixed2(price)

\* The purchase/download control as the template has it.
TemplateButton ==
  [label |-> "", href |-> "", download |-> FALSE, disabled |-> FALSE]

\* The control after the price branch of block A, src/app.js, part_000 and
\* part_001 (part_001 labels a free game "Download Now" in both cases).
ButtonOf(b, game) ==
  IF game.price = 0 /\ game.download_url # ""
    THEN [label |-> "Download Now", href |-> game.download_url,
          download |-> TRUE, disabled |-> FALSE]
    ELSE [label |-> IF b = "P1" /\ game.price = 0 THEN "Download Now"
                    ELSE "Purchase Now",
          href |-> "#", download |-> FALSE, disabled |-> TRUE]

\* The control after the price branch of part_003.
ButtonOfPart3(game) ==
  IF game.price = 0
    THEN IF game.download_url # ""
           THEN [label |-> "Download Now", href |-> game.download_url,
                 download |-> TRUE, disabled |-> FALSE]
           ELSE [label |-> "Download Now", href |-> "#",
                 download |-> FALSE, disabled |-> TRUE]
    ELSE [label |-> "Purchase Now", href |-> "#",
          download |-> FALSE, disabled |-> FALSE]

Button(b, game) == IF b = "P3" THEN ButtonOfPart3(game) ELSE ButtonOf(b, game)

\* Games the store may hold besides g1..g3, one per price and download_url.
Prices == {0, 5, 99, 1905, 2000, 123456}
DownloadUrls == {"", "one.zip"}
PricedGames ==
  {<<GameRec(1, <<"O","n","e">>, <<"x">>, p, dl)>> :
     p \in Prices, dl \in DownloadUrls}

\* What a detail renderer's request may be answered with.
DetailOutcomes(u) ==
  Outcomes(u) \cup
    (IF u = "GAMES"
       THEN {[ok |-> TRUE, why |-> "ok", data |-> p] : p \in PricedGames}
       ELSE {})

\* The price of no game.
NoPrice == 0 - 1

\* A detail call; price and download_url are those of the game it found.
IdleDetail ==
  [pc |-> "idle", kind |-> "none", outcome |-> "none",
   price |-> NoPrice, download_url |-> ""]

\* The detail page before a renderer has touched it.
TemplateView ==
  [main |-> "page", section |-> "page", filled |-> {}, shown |-> NoId,
   price |-> <<>>, button |-> TemplateButton]

VARIABLES
  page,         \* the script file the document loads
  route,        \* the document: home page, games page, newswire page
  live,         \* the block whose listeners are on the search box in the document
  dispatched,   \* per block: the route dispatch of its initialisation ran
  dataCache,    \* per block: appState.dataCache, url -> parsed payload
  searchIndex,  \* per block: appState.searchIndex, null until assigned
  inflight,     \* network requests sent and not yet answered
  lists,        \* per block and source: the list renderer call
  searches,     \* the runs of the search handler
  containers,   \* children of the list containers
  spinner,      \* per loading indicator: shown?
  urlId,        \* the id parameter of the address
  absent,       \* the slot element the document lacks, if any
  detail,       \* per block: the detail renderer call
  view,         \* the detail page: main region, detail section, slots
  comps,        \* per block and component: the loadComponent call
  form,         \* the form the visitor submits
  handler,      \* per block: its handleFormSubmission call
  box,          \* the text of the search box
  typed,        \* number of input events on the search box so far
  elapsed,      \* clock ticks since the last input event
  fired,        \* the input events the debounced handler was started for
  timers,       \* the timers of the debounced handler that are pending
  timeoutId,    \* timeoutId of the debounce closure, null until the first call
  scroll,       \* the scroll position, the clock and the navbar's class
  reveal,       \* per block its revealObserver; the classes of the elements
  menu,         \* the mobile menu: open?, and the last click on its controls
  panel         \* the search results container and the list it shows

vars ==
  <<page, route, live, dispatched, dataCache, searchIndex, inflight, lists,
    searches, containers, spinner, urlId, absent, detail, view, comps,
    form, handler, box, typed, elapsed, fired, timers, timeoutId, scroll,
    reveal, menu, panel>>

forms == <<form, handler>>
typing == <<box, typed, elapsed, fired, timers, timeoutId>>
ui == <<scroll, menu>>
widgets == <<forms, typing, ui, panel>>

\* What the script never changes.
document == <<urlId, absent>>

NoCacheEntry == [has |-> FALSE, data |-> <<>>]
NullIndex == [set |-> FALSE, items |-> <<>>]
NoVia == [u \in GIST_URLS |-> "none"]

IdleList ==
  [pc |-> "idle", into |-> {}, spin |-> {}, limit |-> NoLimit,
   via |-> "none", outcome |-> "none", appended |-> <<>>]

IdleSearch ==
  [pc |-> "idle", blk |-> "none", q |-> <<>>, idx |-> <<>>,
   got |-> [u \in GIST_URLS |-> NoCacheEntry], via |-> NoVia,
   outcome |-> "none", result |-> <<>>]

\* The page before its script runs, the loads of the components being as
\* given.
InitWith(loads) ==
  /\ page \in Pages
  /\ route \in Routes
  /\ live \in {b \in BlocksOf(page) : HasSearch(b)} \cup {"none"}
  /\ live = "none" => \A b \in BlocksOf(page) : ~HasSearch(b)
  /\ dispatched = [b \in Blocks |-> FALSE]
  /\ dataCache = [b \in Blocks |-> [u \in GIST_URLS |-> NoCacheEntry]]
  /\ searchIndex = [b \in Blocks |-> NullIndex]
  /\ inflight = {}
  /\ lists = [b \in Blocks |-> [u \in GIST_URLS |-> IdleList]]
  /\ searches = [k \in 1..MaxSearches |-> IdleSearch]
  /\ containers = [c \in ContainerIds |-> <<>>]
  /\ spinner = [s \in SpinnerIds |-> FALSE]
  /\ urlId \in CASE route = "article" -> UrlIds \ {NoParam}
                [] route = "game" -> UrlIds
                [] OTHER -> {NoParam}
  /\ absent \in CASE route = "article" -> {"none", "article-date"}
                 [] route = "game" -> {"none", "game-hero", "game-detail-title"}
                 [] OTHER -> {"none"}
  /\ detail = [b \in Blocks |-> IdleDetail]
  /\ view = TemplateView
  /\ comps = loads
  /\ form = FreshForm
  /\ handler = [b \in Blocks |-> IdleHandler]
  /\ box = <<>>
  /\ typed = 0
  /\ elapsed = 0
  /\ fired = <<>>
  /\ timers = {}
  /\ timeoutId = NoTimer
  /\ scroll = FreshScroll
  /\ reveal = NoReveal
  /\ menu = ClosedMenu
  /\ panel = EmptyPanel

Init == InitWith([b \in Blocks |-> [c \in Components |-> NotLoaded]])

\* ---------------------------------------------------------------- fetchData
\* appState.dataCache.has(url)
CacheHas(b, u) == HasCache(b) /\ dataCache[b][u].has

\* The network request fetchData (or a direct fetch) sends for `u`.
Request(kind, b, k, u) ==
  [kind |-> kind, blk |-> b, k |-> k, url |-> u, busted |-> FetchUrlBusted(b, u)]

\* A fetchData that stores whatever the request ended with.
CacheAfter_StoreAlways(cache, b, u, out) ==
  IF HasCache(b)
    THEN [cache EXCEPT ![b][u] = [has |-> TRUE, data |-> out.data]]
    ELSE cache

\* A fetchData that keeps the first payload stored for a url.
CacheAfter_KeepFirst(cache, b, u, out) ==
  IF HasCache(b) /\ out.ok /\ ~cache[b][u].has
    THEN [cache EXCEPT ![b][u] = [has |-> TRUE, data |-> out.data]]
    ELSE cache

\* appState.dataCache.set(url, data) on a 2xx response whose body parses;
\* a failure throws before the set.
CacheAfter(cache, b, u, out) ==
  IF HasCache(b) /\ out.ok
    THEN [cache EXCEPT ![b][u] = [has |-> TRUE, data |-> out.data]]
    ELSE cache

\* ------------------------------------------------------------ list renderers
Card(u, rec) == [kind |-> "card", src |-> u, id |-> rec.id]
ErrorMessage(u) == [kind |-> "error", src |-> u, id |-> NoId]

\* if (count) data = data.slice(0, count)
Truncate(data, limit) ==
  IF limit # NoLimit /\ limit # 0 THEN Slice0(data, limit) ELSE data

\* data.map(createCard)
Cards(u, data) == [i \in 1..Len(data) |-> Card(u, data[i])]

\* Revisions whose list renderers take the container and the limit as
\* parameters; the renderers of part_001 and part_003 look the containers up
\* and cut the home page list to three themselves.
TakesLimit(b) == b \notin {"P1", "P3"}

\* What one list call appends to container c.
CardsInto(b, u, c, data, limit) ==
  IF ~TakesLimit(b)
    THEN Cards(u, IF IsHomeContainer(c) THEN Slice0(data, 3) ELSE data)
    ELSE Cards(u, Truncate(data, limit))

\* The containers that get the error message when the fetch fails.
ErrorTargets(b, u, into) ==
  IF ~TakesLimit(b) /\ u = "NEWS" /\ "latest-news-container" \in into
    THEN {"latest-news-container"}
    ELSE into

\* toggleLoadingSpinner(id, show) for every indicator of the call.
ToggleSpinners(sp, ids, show) ==
  [s \in SpinnerIds |-> IF s \in ids THEN show ELSE sp[s]]

\* A renderer that hides its indicator at the end of the try block instead
\* of in a finally block.
SpinnersAfterList_TryOnly(sp, ids, ok) ==
  IF ok THEN ToggleSpinners(sp, ids, FALSE) ELSE sp

\* The finally block of a list renderer.
SpinnersAfterList(sp, ids, ok) == ToggleSpinners(sp, ids, FALSE)

\* A renderer whose catch block appends the message to what the container
\* holds instead of assigning innerHTML.
ContainersAfterList_AppendError(dom, b, u, l, out) ==
  [c \in ContainerIds |->
     IF out.ok
       THEN IF c \in l.into
              THEN dom[c] \o CardsInto(b, u, c, out.data, l.limit)
              ELSE dom[c]
       ELSE IF c \in ErrorTargets(b, u, l.into)
              THEN dom[c] \o <<ErrorMessage(u)>>
              ELSE dom[c]]

\* The DOM after the fetch of a list call settled with `out`.
ContainersAfterList(dom, b, u, l, out) ==
  [c \in ContainerIds |->
     IF out.ok
       THEN IF c \in l.into
              THEN dom[c] \o CardsInto(b, u, c, out.data, l.limit)
              ELSE dom[c]
       ELSE IF c \in ErrorTargets(b, u, l.into)
              THEN <<ErrorMessage(u)>>
              ELSE dom[c]]

\* The cards the call appended (to its first container), kept for inspection.
AppendedBy(b, u, l, out) ==
  IF out.ok /\ l.into # {}
    THEN CardsInto(b, u, CHOOSE c \in l.into : TRUE, out.data, l.limit)
    ELSE <<>>

FinishedList(b, u, l, out, how) ==
  [l EXCEPT !.pc = "done", !.via = how,
            !.outcome = IF out.ok THEN "ok" ELSE "error",
            !.appended = AppendedBy(b, u, l, out)]

\* The sources whose list the route dispatch renders, with the containers
\* and indicators of each call.
ListsOn(r) == {u \in GIST_URLS : ContainersFor(u) \cap ContainersOn(r) # {}}
IntoOn(r, u) == ContainersFor(u) \cap ContainersOn(r)
SpinOf(b, u, into) ==
  IF b = "P1" /\ u = "GAMES" /\ into # {}
    THEN {"homepage-games-loading-spinner", "games-loading-spinner"}
    ELSE {SpinnerFor(u, c) : c \in into}

\* A list call up to its first suspension: the indicator is shown and the
\* collection is asked for; a cached collection is rendered right away.
StartedList(b, u, into, limit) ==
  LET l0 == [IdleList EXCEPT !.into = into, !.spin = SpinOf(b, u, into),
                             !.limit = limit]
  IN IF CacheHas(b, u)
       THEN FinishedList(b, u, l0, [ok |-> TRUE, data |-> dataCache[b][u].data], "hit")
       ELSE [l0 EXCEPT !.pc = "await", !.via = "net"]

StartLists(b, started, limit) ==
  /\ lists' = [lists EXCEPT ![b] =
       [u \in GIST_URLS |->
          IF u \in started THEN StartedList(b, u, IntoOn(route, u), limit)
          ELSE lists[b][u]]]
  /\ inflight' = inflight \cup
       {Request("list", b, 0, u) : u \in {v \in started : ~CacheHas(b, v)}}
  /\ containers' = [c \in ContainerIds |->
       IF \E u \in started : CacheHas(b, u) /\ c \in IntoOn(route, u)
         THEN LET u == CHOOSE v \in started : c \in IntoOn(route, v)
              IN containers[c] \o
                   CardsInto(b, u, c, dataCache[b][u].data, limit)
         ELSE containers[c]]
  /\ spinner' = [s \in SpinnerIds |->
       IF \E u \in started : s \in SpinOf(b, u, IntoOn(route, u))
         THEN LET u == CHOOSE v \in started : s \in SpinOf(b, v, IntoOn(route, v))
              IN IF CacheHas(b, u)
                   THEN SpinnersAfterList(spinner, {s}, TRUE)[s]
                   ELSE TRUE
         ELSE spinner[s]]

\* ---------------------------------------------------------- detail renderers
KindOn(r) == IF r = "article" THEN "article" ELSE "game"
SourceOf(kind) == IF kind = "article" THEN "NEWS" ELSE "GAMES"

\* document.getElementById(slot) finds an element: the document has the slot
\* and no renderer has replaced the region that holds it.
Exists(v, slot) ==
  /\ slot # absent
  /\ v.main = "page"
  /\ (\E i \in 1..Len(ArticleSlots) : ArticleSlots[i] = slot) => v.section = "page"

\* The slot writes of a renderer that found its record: they stop at the
\* first unguarded write whose element is missing (a TypeError).
Populate(v, b, kind) ==
  LET order == SlotsOf(b, kind)
      bad == {i \in 1..Len(order) : ~Exists(v, order[i]) /\ ~Guarded(b, order[i])}
      stop == IF bad = {} THEN Len(order) + 1
              ELSE CHOOSE i \in bad : \A j \in bad : i <= j
  IN [threw |-> bad # {},
      filled |-> {order[i] : i \in {j \in 1..(stop - 1) : Exists(v, order[j])}}]

\* document.querySelector("main").innerHTML = message
MainReplaced(message) == [TemplateView EXCEPT !.main = message]

\* Revisions whose renderers throw when the record is missing and leave the
\* message to their catch block.
ThrowsNotFound(b) == b \in {"A", "B", "P0"}

\* The page after a renderer found no record with the id.
NotFoundView(v, b, kind) ==
  IF ThrowsNotFound(b) THEN MainReplaced("failed")
  ELSE IF kind = "game" THEN MainReplaced("notfound")
  ELSE [v EXCEPT !.section = "notfound", !.filled = {}, !.shown = NoId]

\* The page after the slots of the found record were written.
PopulatedView(v, b, kind, rec) ==
  LET p == Populate(v, b, kind)
  IN IF p.threw THEN MainReplaced("failed")
     ELSE [v EXCEPT
             !.filled = v.filled \cup p.filled,
             !.shown = rec.id,
             !.price = IF "game-detail-price" \in p.filled
                         THEN PriceText(rec.price) ELSE v.price,
             !.button = IF "purchase-download-btn" \in p.filled
                          THEN Button(b, rec) ELSE v.button]

\* How a detail call ends once its fetch settled with `out`.
DetailOutcome(v, b, kind, id, out) ==
  IF ~out.ok THEN "fetchfailed"
  ELSE IF ~FindById(out.data, id).found THEN "notfound"
  ELSE IF Populate(v, b, kind).threw THEN "slotmissing"
  ELSE "shown"

\* The page once the fetch of a detail call settled with `out`.
ViewAfterDetail(v, b, kind, id, out) ==
  IF ~out.ok THEN MainReplaced("failed")
  ELSE LET f == FindById(out.data, id)
       IN IF ~f.found THEN NotFoundView(v, b, kind)
          ELSE PopulatedView(v, b, kind, out.data[f.at])

FinishedDetail(v, b, kind, id, out) ==
  LET f == IF out.ok THEN FindById(out.data, id) ELSE [found |-> FALSE, at |-> 0]
      isGame == f.found /\ kind = "game"
  IN [pc |-> "done", kind |-> kind,
      outcome |-> DetailOutcome(v, b, kind, id, out),
      price |-> IF isGame THEN out.data[f.at].price ELSE NoPrice,
      download_url |-> IF isGame THEN out.data[f.at].download_url ELSE ""]

\* The indicator of a detail renderer: the article renderers use the one of
\* the news list, the game renderers none.
DetailSpin(kind) == IF kind = "article" THEN {"loading-spinner"} ELSE {}

\* Revisions whose game renderer writes "Game not found." when the address
\* has no id; the others return at once.
ReportsNoId(b) == b \in {"A", "B", "L", "P0"}

\* renderArticleDetail(id) / renderGameDetail() up to its first suspension.
StartDetail(b) ==
  LET kind == KindOn(route)
      u == SourceOf(kind)
  IN IF kind = "game" /\ urlId = NoParam
       THEN /\ detail' = [detail EXCEPT ![b] =
                 [IdleDetail EXCEPT !.pc = "done", !.kind = kind,
                                    !.outcome = "noid"]]
            /\ view' = IF ReportsNoId(b) THEN MainReplaced("notfound") ELSE view
            /\ UNCHANGED <<inflight, spinner>>
       ELSE IF CacheHas(b, u)
         THEN LET out == [ok |-> TRUE, why |-> "ok", data |-> dataCache[b][u].data]
              IN /\ detail' = [detail EXCEPT ![b] =
                      FinishedDetail(view, b, kind, urlId, out)]
                 /\ view' = ViewAfterDetail(view, b, kind, urlId, out)
                 /\ spinner' = ToggleSpinners(spinner, DetailSpin(kind), FALSE)
                 /\ UNCHANGED inflight
         ELSE /\ detail' = [detail EXCEPT ![b] =
                   [IdleDetail EXCEPT !.pc = "await", !.kind = kind]]
              /\ inflight' = inflight \cup {Request("detail", b, 0, u)}
              /\ spinner' = ToggleSpinners(spinner, DetailSpin(kind), TRUE)
              /\ UNCHANGED view

\* The answer to the request of a detail call arrives.
DetailResponse(r, out) ==
  /\ r \in inflight /\ r.kind = "detail"
  /\ out \in DetailOutcomes(r.url)
  /\ LET d == detail[r.blk]
     IN /\ detail' = [detail EXCEPT ![r.blk] =
                        FinishedDetail(view, r.blk, d.kind, urlId, out)]
        /\ view' = ViewAfterDetail(view, r.blk, d.kind, urlId, out)
        /\ spinner' = ToggleSpinners(spinner, DetailSpin(d.kind), FALSE)
  /\ dataCache' = CacheAfter(dataCache, r.blk, r.url, out)
  /\ inflight' = inflight \ {r}
  /\ UNCHANGED <<page, route, live, dispatched, searchIndex, searches, lists,
                 containers, document, comps, widgets, reveal>>

\* initializeApp / init, from the settling of the component loads on: the
\* renderer of the current route is called.
Dispatch(b) ==
  /\ b \in BlocksOf(page)
  /\ ~dispatched[b]
  /\ dispatched' = [dispatched EXCEPT ![b] = TRUE]
  /\ IF route \in DetailRoutes
       THEN /\ StartDetail(b)
            /\ reveal' = initScrollReveal(reveal, b)
            /\ UNCHANGED <<lists, containers>>
       ELSE /\ StartLists(b, ListsOn(route),
                  IF route = "home" THEN HOME_PAGE_ITEM_COUNT ELSE NoLimit)
            /\ reveal' = WithCards(initScrollReveal(reveal, b), b,
                            {u \in ListsOn(route) : CacheHas(b, u)})
            /\ UNCHANGED <<detail, view>>
  /\ UNCHANGED <<page, route, live, dataCache, searchIndex, searches, document,
                 widgets>>

\* Everything a dispatch may change.
routed == <<dispatched, inflight, lists, containers, spinner, detail, view, reveal>>
unrouted == <<page, route, live, dataCache, searchIndex, searches, document,
              widgets>>

\* The script of block b runs: initializeApp / init starts the loads of the
\* shared components; the revisions that do not await them call the renderer
\* of the route in the same run.  The second block of src/src/js/app.js runs
\* after the first.
Start(b) ==
  /\ b \in BlocksOf(page)
  /\ \A c \in Components : comps[b][c].pc = "none"
  /\ b = "B" => \E c \in Components : comps["A"][c].pc # "none"
  /\ comps' = [comps EXCEPT ![b] =
       [c \in Components |-> IF c \in CompsOf(b) THEN Loading ELSE NotLoaded]]
  /\ IF AwaitsComponents(b)
       THEN UNCHANGED <<routed, unrouted>>
       ELSE Dispatch(b)

\* The fetch of component c of block b settles with `out`; when it is the
\* last load of an initialisation that awaits them, Promise.all resolves and
\* the route is dispatched.
ComponentSettles(b, c, out) ==
  /\ b \in BlocksOf(page)
  /\ comps[b][c].pc = "await"
  /\ comps' = [comps EXCEPT ![b][c] = AfterLoad(b, out)]
  /\ IF AwaitsComponents(b) /\ \A x \in CompsOf(b) \ {c} : comps[b][x].pc = "done"
       THEN Dispatch(b)
       ELSE UNCHANGED <<routed, unrouted>>

\* A direct call renderNewsList(container, limit) / renderGameList(container,
\* limit) of a revision whose list renderers take the limit as a parameter.
CallRenderList(b, u, limit) ==
  /\ b \in BlocksOf(page) /\ TakesLimit(b)
  /\ u \in ListsOn(route)
  /\ lists[b][u].pc = "idle"
  /\ StartLists(b, {u}, limit)
  /\ reveal' = WithCards(reveal, b, {v \in {u} : CacheHas(b, v)})
  /\ UNCHANGED <<page, route, live, dispatched, dataCache, searchIndex, searches,
                 document, comps, detail, view,
                 widgets>>

\* The answer to the request of a list call arrives.
ListResponse(r, out) ==
  /\ r \in inflight /\ r.kind = "list"
  /\ out \in Outcomes(r.url)
  /\ LET l == lists[r.blk][r.url]
     IN /\ lists' = [lists EXCEPT ![r.blk][r.url] =
                       FinishedList(r.blk, r.url, l, out, "net")]
        /\ containers' = ContainersAfterList(containers, r.blk, r.url, l, out)
        /\ reveal' = WithCards(reveal, r.blk,
                        {v \in {r.url} : out.ok /\ l.into # {}})
        /\ spinner' = SpinnersAfterList(spinner, l.spin, out.ok)
  /\ dataCache' = CacheAfter(dataCache, r.blk, r.url, out)
  /\ inflight' = inflight \ {r}
  /\ UNCHANGED <<page, route, live, dispatched, searchIndex, searches,
                 document, comps, detail, view,
                 widgets>>

\* -------------------------------------------------------------------- forms
\* The blocks whose submit listener is on form f: the listener of the main
\* contact form is added in the run that dispatches the route, the one of
\* the footer form by the callback of the footer load.  (On the page of
\* src/src/js/app.js both blocks write the footer; its form is submitted
\* only on the pages of one block.)
Listeners(f) ==
  {b \in BlocksOf(page) :
     IF f = "main-contact-form" THEN dispatched[b]
     ELSE /\ Cardinality(BlocksOf(page)) = 1
          /\ comps[b]["footer"].wrote = "component"}

\* The POST handleFormSubmission sends.
FormRequest(b, f) ==
  [kind |-> "form", blk |-> b, k |-> 0, url |-> f, busted |-> FALSE]

\* The form after the fetch of block b's handler settled with `out`.
FormAfter(fm, b, out) ==
  IF out = "ok"
    THEN IF RedirectsMain(b) /\ fm.id = "main-contact-form"
           THEN [fm EXCEPT !.location = "index.html"]
           ELSE [fm EXCEPT !.content = "success"]
    ELSE [fm EXCEPT !.content = "failure"]

\* A submit event on form f: every handler on it runs up to its fetch.
Submit(f) ==
  /\ form.id = "none"
  /\ Listeners(f) # {}
  /\ form' = [form EXCEPT !.id = f, !.disabled = TRUE, !.label = "Sending..."]
  /\ handler' = [b \in Blocks |->
       IF b \in Listeners(f)
         THEN [pc |-> "await", status |-> "none", sent |-> handler[b].sent + 1]
         ELSE handler[b]]
  /\ inflight' = inflight \cup {FormRequest(b, f) : b \in Listeners(f)}
  /\ UNCHANGED <<page, route, live, dispatched, dataCache, searchIndex, lists,
                 searches, containers, spinner, document, comps, detail, view,
                 typing, ui, reveal, panel>>

\* The POST of a handler settles with `out`.
FormResponse(r, out) ==
  /\ r \in inflight /\ r.kind = "form"
  /\ handler' = [handler EXCEPT ![r.blk].pc = "done", ![r.blk].status = out]
  /\ form' = FormAfter(form, r.blk, out)
  /\ inflight' = inflight \ {r}
  /\ UNCHANGED <<page, route, live, dispatched, dataCache, searchIndex, lists,
                 searches, containers, spinner, document, comps, detail, view,
                 typing, ui, reveal, panel>>

\* ------------------------------------------------------------- search index
IndexOf(items) == [set |-> TRUE, items |-> items]

\* The tail of buildSearchIndex in the revisions that fetch the two sources
\* one after the other (block A, part_000), from the games fetch on: the
\* games are taken from the cache, or asked for.
GamesStage(b, s, idx) ==
  IF CacheHas(b, "GAMES")
    THEN [s EXCEPT !.pc = "done", !.outcome = "ok", !.via["GAMES"] = "hit",
                   !.got["GAMES"] = dataCache[b]["GAMES"],
                   !.idx = idx \o EntriesOf(b, "GAMES", dataCache[b]["GAMES"].data)]
    ELSE [s EXCEPT !.pc = "awaitGames", !.via["GAMES"] = "net", !.idx = idx]

\* buildSearchIndex of block A and part_000 from its start to its first
\* suspension.
SequentialBuild(b, s) ==
  IF CacheHas(b, "NEWS")
    THEN GamesStage(b, [s EXCEPT !.via["NEWS"] = "hit",
                                 !.got["NEWS"] = dataCache[b]["NEWS"]],
                    StaticIndex(b) \o EntriesOf(b, "NEWS", dataCache[b]["NEWS"].data))
    ELSE [s EXCEPT !.pc = "awaitNews", !.via["NEWS"] = "net",
                   !.idx = StaticIndex(b)]

\* The index block B assembles once both fetches of its Promise.all are in.
AssembledIndex(b, got) ==
  StaticIndex(b) \o EntriesOf(b, "NEWS", got["NEWS"].data)
                 \o EntriesOf(b, "GAMES", got["GAMES"].data)

\* buildSearchIndex of block B from its start to the Promise.all.
ParallelBuild(b, s) ==
  LET got == [u \in GIST_URLS |->
                IF CacheHas(b, u) THEN dataCache[b][u] ELSE NoCacheEntry]
      via == [u \in GIST_URLS |-> IF CacheHas(b, u) THEN "hit" ELSE "net"]
  IN IF \A u \in GIST_URLS : got[u].has
       THEN [s EXCEPT !.pc = "done", !.outcome = "ok", !.via = via, !.got = got,
                      !.idx = AssembledIndex(b, got)]
       ELSE [s EXCEPT !.pc = "awaitAll", !.via = via, !.got = got,
                      !.idx = StaticIndex(b)]

BuildStart(b, s) ==
  IF b = "B" THEN ParallelBuild(b, s) ELSE SequentialBuild(b, s)

\* The search call once its buildSearchIndex has returned: the filter runs
\* over appState.searchIndex.
WithResult(s, items) == [s EXCEPT !.result = FilterResults(items, s.q)]

\* appState.searchIndex as a build step of search s leaves it: part_000
\* assigns the array first and pushes into it, the others assign it last.
IndexAfterStep(b, s) ==
  IF b = "P0" \/ s.pc = "done"
    THEN [searchIndex EXCEPT ![b] = IndexOf(s.idx)]
    ELSE searchIndex

Settled(b, s) ==
  IF s.pc = "done" THEN WithResult(s, IndexAfterStep(b, s)[b].items) ELSE s

\* searchIndex(query) / performSearch(query) up to its first suspension.
\* k is the first unused run.
StartSearch(k, b, q) ==
  /\ b \in BlocksOf(page) /\ HasSearch(b)
  /\ searches[k].pc = "idle"
  /\ \A j \in 1..(k - 1) : searches[j].pc # "idle"
  /\ LET s0 == [IdleSearch EXCEPT !.blk = b, !.q = q]
     IN IF IsBlank(q)
          THEN /\ searches' = [searches EXCEPT ![k] =
                                 [s0 EXCEPT !.pc = "done", !.outcome = "ok"]]
               /\ UNCHANGED <<searchIndex, inflight>>
          ELSE IF searchIndex[b].set
            THEN /\ searches' = [searches EXCEPT ![k] =
                      WithResult([s0 EXCEPT !.pc = "done", !.outcome = "ok"],
                                 searchIndex[b].items)]
                 /\ UNCHANGED <<searchIndex, inflight>>
            ELSE LET s1 == BuildStart(b, s0)
                 IN /\ searches' = [searches EXCEPT ![k] = Settled(b, s1)]
                    /\ searchIndex' = IndexAfterStep(b, s1)
                    /\ inflight' = inflight \cup
                         {Request("search", b, k, u) :
                            u \in {v \in GIST_URLS : s1.via[v] = "net"}}
  /\ UNCHANGED <<page, route, live, dispatched, dataCache, lists, containers,
                 spinner, document, comps, detail, view,
                 forms, ui, reveal>>

\* The debounced input handler runs with the text of the search box.
SearchInput(k, b, q) ==
  /\ q \in Queries
  /\ b = live
  /\ StartSearch(k, b, q)
  /\ panel' = HandlerResumes([panel EXCEPT !.by = @ \cup {k}], k, searches'[k])
  /\ UNCHANGED typing

\* A debounce that sets a new timer without clearing the pending one.
TimersAfterInput_NoClear(ts, id, n) ==
  ts \cup {[id |-> n, due |-> DebounceTicks, event |-> n]}

\* The debounced function called for input event n:
\* clearTimeout(timeoutId); timeoutId = setTimeout(() => func(...args), delayMs)
TimersAfterInput(ts, id, n) ==
  {t \in ts : t.id # id} \cup {[id |-> n, due |-> DebounceTicks, event |-> n]}

\* An input event on the search box leaves the text q in it: the listener,
\* the debounced handleInput, runs.
InputEvent(q) ==
  /\ live # "none" /\ comps[live]["search"].called
  /\ q \in Queries
  /\ typed < MaxInputs
  /\ Len(fired) < MaxSearches
  /\ box' = q
  /\ typed' = typed + 1
  /\ elapsed' = 0
  /\ timers' = TimersAfterInput(timers, timeoutId, typed + 1)
  /\ timeoutId' = typed + 1
  /\ panel' = [panel EXCEPT !.dismissed = FALSE]
  /\ UNCHANGED <<page, route, live, dispatched, dataCache, searchIndex, inflight,
                 lists, searches, containers, spinner, document, comps, detail,
                 view, forms, fired, ui, reveal>>

\* The clock advances by one tick; a timer that is due fires first.
Tick ==
  /\ timers # {}
  /\ \A t \in timers : t.due > 0
  /\ timers' = {[t EXCEPT !.due = t.due - 1] : t \in timers}
  /\ elapsed' = elapsed + 1
  /\ UNCHANGED <<page, route, live, dispatched, dataCache, searchIndex, inflight,
                 lists, searches, containers, spinner, document, comps, detail,
                 view, forms, box, typed, fired, timeoutId, ui, reveal, panel>>

\* A timer of the debounced handler fires: the wrapped handler starts and
\* calls the search with event.target.value, the text in the box.
TimerFires(k) ==
  /\ \E t \in timers :
       /\ t.due = 0
       /\ timers' = timers \ {t}
       /\ fired' = Append(fired, t.event)
  /\ StartSearch(k, live, box)
  /\ panel' = HandlerResumes([panel EXCEPT !.by = @ \cup {k}], k, searches'[k])
  /\ UNCHANGED <<box, typed, elapsed, timeoutId>>

\* The Escape key is pressed in the search box (clears = TRUE), or a click
\* lands outside the box and the results container: the container is
\* hidden, and Escape empties the box.
Dismiss(clears) ==
  /\ live # "none" /\ comps[live]["search"].called
  /\ panel' = [panel EXCEPT !.shown = FALSE, !.dismissed = TRUE]
  /\ box' = IF clears THEN <<>> ELSE box
  /\ UNCHANGED <<page, route, live, dispatched, dataCache, searchIndex, inflight,
                 lists, searches, containers, spinner, document, comps, detail,
                 view, forms, typed, elapsed, fired, timers, timeoutId, ui,
                 reveal>>

\* A direct call searchIndex(query), with any argument.
CallSearch(k, b, q) ==
  /\ q \in Arguments
  /\ k <= MaxCalls
  /\ StartSearch(k, b, q)
  /\ UNCHANGED <<typing, panel>>

\* What an awaited fetchData hands to the build: the payload, or nothing
\* when it threw.
Received(out) == IF out.ok THEN [has |-> TRUE, data |-> out.data] ELSE NoCacheEntry

\* The step of search s that the answer `out` to its request for u resumes.
Resumed(b, s, u, out) ==
  CASE s.pc = "awaitNews" ->
         GamesStage(b, [s EXCEPT !.got["NEWS"] = Received(out)],
           (IF b = "P0" THEN searchIndex[b].items ELSE s.idx)
             \o (IF out.ok THEN EntriesOf(b, "NEWS", out.data) ELSE <<>>))
    [] s.pc = "awaitGames" ->
         [s EXCEPT !.pc = "done", !.outcome = "ok",
                   !.got["GAMES"] = Received(out),
                   !.idx = (IF b = "P0" THEN searchIndex[b].items ELSE s.idx)
                     \o (IF out.ok THEN EntriesOf(b, "GAMES", out.data) ELSE <<>>)]
    [] s.pc = "awaitAll" ->
         IF ~out.ok
           THEN [s EXCEPT !.pc = "done", !.outcome = "ok", !.idx = StaticIndex(b)]
           ELSE LET got == [s.got EXCEPT ![u] = Received(out)]
                IN IF \A v \in GIST_URLS : got[v].has
                     THEN [s EXCEPT !.pc = "done", !.outcome = "ok", !.got = got,
                                    !.idx = AssembledIndex(b, got)]
                     ELSE [s EXCEPT !.got = got]
    [] OTHER -> s

\* The answer to a request of a search's index build arrives.  The request
\* of a build that has already returned (block B, after the other fetch
\* failed) only fills the cache.
SearchResponse(r, out) ==
  /\ r \in inflight /\ r.kind = "search"
  /\ out \in Outcomes(r.url)
  /\ LET s == searches[r.k]
         s1 == Resumed(r.blk, s, r.url, out)
     IN IF s.pc = "done"
          THEN /\ UNCHANGED <<searches, searchIndex, panel>>
               /\ inflight' = inflight \ {r}
          ELSE /\ searches' = [searches EXCEPT ![r.k] = Settled(r.blk, s1)]
               /\ panel' = HandlerResumes(panel, r.k, Settled(r.blk, s1))
               /\ searchIndex' = IndexAfterStep(r.blk, s1)
               /\ inflight' = (inflight \ {r}) \cup
                    (IF s.pc = "awaitNews" /\ s1.pc = "awaitGames"
                       THEN {Request("search", r.blk, r.k, "GAMES")} ELSE {})
  /\ dataCache' = CacheAfter(dataCache, r.blk, r.url, out)
  /\ UNCHANGED <<page, route, live, dispatched, lists, containers, spinner,
                 document, comps, detail, view,
                 forms, typing, ui, reveal>>

\* ------------------------------------------------------------------ scroll
\* The blocks whose listeners for the header (scroll, mobile menu, anchors)
\* are in place: added by the callback of the navbar load (the header is
\* part of the navbar), in part_003 by the DOMContentLoaded handler.
Listening(b) ==
  /\ b \in BlocksOf(page)
  /\ IF b = "P3" THEN comps[b]["footer"].pc # "none"
     ELSE comps[b]["navbar"].wrote = "component"

\* if (now - lastRan >= limitMs) of block b's throttle; the unthrottled
\* listeners always run.
PassesThrottle(b, s) == Throttled(b) => s.now - s.lastRan[b] >= ThrottleTicks

\* A scroll event leaves the window at position y: every listener on the
\* window is called, and those the throttle lets through set the class of
\* the header from window.scrollY.
ScrollEvent(y) ==
  /\ y \in ScrollPositions
  /\ scroll.events < MaxScrolls
  /\ LET heard == {b \in Blocks : Listening(b)}
         through == {b \in heard : PassesThrottle(b, scroll)}
     IN scroll' =
          [y |-> y, now |-> scroll.now, events |-> scroll.events + 1,
           solid |-> IF through # {} THEN y > SCROLL_THRESHOLD ELSE scroll.solid,
           last |-> IF through # {} THEN "ran"
                    ELSE IF heard # {} THEN "dropped" ELSE "unheard",
           lastRan |-> [b \in Blocks |->
                          IF b \in through /\ Throttled(b) THEN scroll.now
                          ELSE scroll.lastRan[b]]]
  /\ UNCHANGED <<page, route, live, dispatched, dataCache, searchIndex, inflight,
                 lists, searches, containers, spinner, document, comps, detail,
                 view, forms, typing, reveal, menu, panel>>

\* Date.now() advances by one tick.
ClockAdvances ==
  /\ scroll.now < ThrottleTicks + MaxClock
  /\ scroll' = [scroll EXCEPT !.now = scroll.now + 1]
  /\ UNCHANGED <<page, route, live, dispatched, dataCache, searchIndex, inflight,
                 lists, searches, containers, spinner, document, comps, detail,
                 view, forms, typing, reveal, menu, panel>>

\* -------------------------------------------------------------- mobile menu
\* The menu after the listeners of block b handled a click on the trigger
\* (mobile-menu-trigger, mobile-menu-btn).
AfterTrigger(m, b) ==
  [open |-> IF TriggerToggles(b) THEN ~m.open ELSE TRUE,
   threw |-> FALSE, clicks |-> m.clicks + 1, last |-> "trigger"]

\* The menu after the listeners of block b handled a click on a menu link
\* (block B: .mobile-nav-link) or on an in-page anchor (the others):
\* if (mobileMenu.classList.contains("transform-none")) toggleMobileMenu();
\* the call throws a ReferenceError where the name is out of scope.
AfterLink(m, b) ==
  IF TriggerToggles(b) /\ m.open /\ CloserOutOfScope(b)
    THEN [open |-> TRUE, threw |-> TRUE, clicks |-> m.clicks + 1, last |-> "link"]
    ELSE [open |-> FALSE, threw |-> FALSE, clicks |-> m.clicks + 1, last |-> "link"]

\* A click on the trigger / on a link of the menu of block b.
Click(b, what) ==
  /\ HasMenu(b) /\ Listening(b)
  /\ menu.clicks < MaxClicks
  /\ menu' = IF what = "trigger" THEN AfterTrigger(menu, b) ELSE AfterLink(menu, b)
  /\ UNCHANGED <<page, route, live, dispatched, dataCache, searchIndex, inflight,
                 lists, searches, containers, spinner, document, comps, detail,
                 view, forms, typing, scroll, reveal, panel>>

\* ------------------------------------------------------------------ reveal
\* The callback of block b's IntersectionObserver reports element e: an
\* entry that is not intersecting is skipped; otherwise the element gets
\* the class visible and the observer stops observing it.
ObserverCallback(b, e, isIntersecting) ==
  /\ b \in reveal.els[e].watching
  /\ reveal' =
       IF isIntersecting
         THEN [reveal EXCEPT !.els[e].visible = TRUE,
                             !.els[e].watching = @ \ {b},
                             !.els[e].runs = @ + 1]
         ELSE reveal
  /\ UNCHANGED <<page, route, live, dispatched, dataCache, searchIndex, inflight,
                 lists, searches, containers, spinner, document, comps, detail,
                 view, widgets>>

\* ----------------------------------------------------------- specifications
Response ==
  \E r \in inflight : \E out \in Outcomes(r.url) :
     \/ ListResponse(r, out)
     \/ SearchResponse(r, out)

\* The page loads and nobody types: every block dispatches its route and
\* the lists are rendered as their fetches settle.
Next ==
  \/ \E b \in Blocks : Start(b)
  \/ \E b \in Blocks : \E c \in Components : \E out \in LoadOutcomes :
       ComponentSettles(b, c, out)
  \/ \E r \in inflight : \E out \in Outcomes(r.url) : ListResponse(r, out)
  \/ \E r \in inflight : \E out \in DetailOutcomes(r.url) : DetailResponse(r, out)

Spec == Init /\ [][Next]_vars

\* The user types into the search box while the block that owns it renders
\* its list, on a page with at most one list: the navigation bar and the
\* search box of that block are loaded, its footer is about to load (on the
\* page of src/src/js/app.js the other block is still loading its
\* components).
SearchReady(b) ==
  [c \in Components |->
     IF c = "footer" THEN Loading ELSE AfterLoad(b, "ok")]

InitSearch ==
  /\ InitWith([b \in Blocks |->
       IF b = live THEN SearchReady(b)
       ELSE [c \in Components |->
               IF b \in BlocksOf(page) /\ c \in CompsOf(b)
                 THEN Loading ELSE NotLoaded]])
  /\ live # "none" /\ route \in {"games", "news", "other"}

NextSearch ==
  \/ ComponentSettles(live, "footer", "ok")
  \/ \E k \in 1..MaxSearches : \E q \in Queries : SearchInput(k, live, q)
  \/ Response

SpecSearch == InitSearch /\ [][NextSearch]_vars

\* The visitor types into the search box of a page without lists; the
\* clock ticks, the timers of the debounced handler fire and the fetches of
\* the index build are answered.
InitDebounce == InitSearch /\ route = "other"

NextDebounce ==
  \/ \E q \in Queries : InputEvent(q)
  \/ Tick
  \/ \E k \in 1..MaxSearches : TimerFires(k)
  \/ \E r \in inflight : \E out \in Outcomes(r.url) : SearchResponse(r, out)

SpecDebounce == InitDebounce /\ [][NextDebounce]_vars

\* The same, the visitor also pressing Escape and clicking elsewhere.
NextPanel ==
  \/ NextDebounce
  \/ \E clears \in BOOLEAN : Dismiss(clears)

SpecPanel == InitDebounce /\ [][NextPanel]_vars

\* A visitor submits a form of a page without lists while the page loads.
InitForm == Init /\ route = "other"

NextForm ==
  \/ \E b \in Blocks : Start(b)
  \/ \E b \in Blocks : \E c \in Components : \E out \in LoadOutcomes :
       ComponentSettles(b, c, out)
  \/ \E f \in FormIds : Submit(f)
  \/ \E r \in inflight : \E out \in LoadOutcomes : FormResponse(r, out)

SpecForm == InitForm /\ [][NextForm]_vars

\* The visitor scrolls a page without lists while its navbar loads.
NextScroll ==
  \/ \E b \in Blocks : Start(b)
  \/ \E b \in Blocks : \E out \in LoadOutcomes : ComponentSettles(b, "navbar", out)
  \/ \E y \in ScrollPositions : ScrollEvent(y)
  \/ ClockAdvances

SpecScroll == InitForm /\ [][NextScroll]_vars

\* The page loads with every component fetched, the games list is rendered
\* and the elements scroll into view.
InitReveal == Init /\ route \in {"other", "games"}

NextReveal ==
  \/ \E b \in Blocks : Start(b)
  \/ \E b \in Blocks : \E c \in Components : ComponentSettles(b, c, "ok")
  \/ \E r \in inflight : \E out \in Outcomes(r.url) : ListResponse(r, out)
  \/ \E b \in Blocks : \E e \in Elements : \E i \in BOOLEAN :
       ObserverCallback(b, e, i)

SpecReveal == InitReveal /\ [][NextReveal]_vars

\* The visitor uses the mobile menu of a page without lists while its
\* navbar loads.
NextMenu ==
  \/ \E b \in Blocks : Start(b)
  \/ \E b \in Blocks : \E out \in LoadOutcomes : ComponentSettles(b, "navbar", out)
  \/ \E b \in Blocks : \E what \in {"trigger", "link"} : Click(b, what)

SpecMenu == InitForm /\ [][NextMenu]_vars

\* The functions called directly, with arguments of their whole domain.
Limits == {NoLimit} \cup 0..MaxLimit

NextApi ==
  \/ \E u \in GIST_URLS : \E limit \in Limits : CallRenderList(live, u, limit)
  \/ \E k \in 1..MaxSearches : \E q \in Arguments : CallSearch(k, live, q)
  \/ Response

SpecApi == InitSearch /\ [][NextApi]_vars

\* ------------------------------------------------------------ fetch cache
\* A list call of block b for u starts in this step.
ListStarts(b, u) == lists[b][u].pc = "idle" /\ lists'[b][u].pc # "idle"

\* Some fetchData(u) of the script has completed successfully.
FetchedOnce(u) == \E a \in Blocks : dataCache[a][u].has

\* C1: once a fetchData(url) of the script has completed successfully, every
\* later fetchData(url) of the same page view returns the stored payload and
\* sends no network request.
C1_LaterCallsHitTheCache ==
  [][\A b \in Blocks : \A u \in GIST_URLS :
       (HasCache(b) /\ FetchedOnce(u) /\ ListStarts(b, u))
         => (lists'[b][u].via = "hit" /\ inflight' = inflight)]_vars

\* The second script block of src/src/js/app.js asks the network for a
\* document the first block has fetched and cached.
C1_SecondBlockRefetches ==
  /\ page = "main"
  /\ dataCache["A"]["NEWS"].has
  /\ lists["B"]["NEWS"].via = "net"
  /\ \E r \in inflight : r.blk = "B" /\ r.url = "NEWS"
  /\ ~dataCache["B"]["NEWS"].has

\* -------------------------------------------------------- loading indicator
ListSuspends(b, u) == lists[b][u].pc = "idle" /\ lists'[b][u].pc = "await"
ListFinishes(b, u) == lists[b][u].pc # "done" /\ lists'[b][u].pc = "done"

\* C10: a list renderer shows its loading indicator when it starts and
\* hides it when it finishes, whether the fetch succeeded or failed; once no
\* renderer is running any more, no indicator is shown.
C10_SpinnerShownThenHidden ==
  [][/\ \A b \in Blocks : \A u \in GIST_URLS :
          /\ ListSuspends(b, u) =>
               /\ lists'[b][u].spin = SpinOf(b, u, IntoOn(route, u))
               /\ \A s \in lists'[b][u].spin : spinner'[s]
          /\ ListFinishes(b, u) =>
               /\ lists'[b][u].outcome \in {"ok", "error"}
               /\ \A s \in lists'[b][u].spin : ~spinner'[s]
     /\ (/\ \A b \in Blocks : \A u \in GIST_URLS : lists'[b][u].pc # "await"
         /\ \A b \in Blocks : detail'[b].pc # "await")
          => \A s \in SpinnerIds : ~spinner'[s]]_vars

\* fetchAndRenderGames of part_003 ended in its catch block and the
\* indicator of the games page is hidden again.
C10_HiddenAfterFailure ==
  /\ page = "part3" /\ route = "games"
  /\ lists["P3"]["GAMES"].pc = "done"
  /\ lists["P3"]["GAMES"].outcome = "error"
  /\ lists["P3"]["GAMES"].spin = {"games-loading-spinner"}
  /\ ~spinner["games-loading-spinner"]
  /\ containers["full-games-container"] = <<ErrorMessage("GAMES")>>

\* ------------------------------------------------------------ failed fetch
\* Run k of the search starts in this step and goes on to build the index.
BuildStarts(k) ==
  /\ searches[k].pc = "idle" /\ searches'[k].pc # "idle"
  /\ ~IsBlank(searches'[k].q)
  /\ ~searchIndex[searches'[k].blk].set

\* C2: a fetchData(url) that fails (non-2xx status, transport failure, body
\* that is not JSON) rejects to its caller and leaves the cache as it was;
\* a later fetchData(url) that finds url uncached sends a new request.
C2_FailureLeavesCacheAlone ==
  [][/\ \A b \in Blocks : \A u \in GIST_URLS :
          /\ (ListFinishes(b, u) /\ lists'[b][u].outcome = "error")
               => dataCache' = dataCache
          /\ (HasCache(b) /\ ListStarts(b, u) /\ ~dataCache[b][u].has)
               => /\ Request("list", b, 0, u) \in inflight' \ inflight
                  /\ lists'[b][u].via = "net"
     /\ \A k \in 1..MaxSearches :
          (BuildStarts(k) /\ ~dataCache[searches'[k].blk]["NEWS"].has)
            => /\ Request("search", searches'[k].blk, k, "NEWS")
                    \in inflight' \ inflight
               /\ searches'[k].via["NEWS"] = "net"]_vars

\* The list renderer's fetch of the news failed, the cache holds nothing for
\* it, and the index build of a search has a request for the news out.
C2_RefetchAfterFailure ==
  /\ live \in {"A", "B", "P0"}
  /\ lists[live]["NEWS"].pc = "done"
  /\ lists[live]["NEWS"].outcome = "error"
  /\ ~dataCache[live]["NEWS"].has
  /\ containers["news-container"] = <<ErrorMessage("NEWS")>>
  /\ \E k \in 1..MaxSearches :
       /\ searches[k].via["NEWS"] = "net"
       /\ Request("search", live, k, "NEWS") \in inflight

\* ------------------------------------------------------------ cache busting
\* C3: fetchData sends the request for a remote data source (news, games)
\* without the cache-busting timestamp parameter, and stores the payload
\* under the original URL.
C3_GistUrlsNeverBusted ==
  /\ \A r \in inflight :
       (HasCache(r.blk) /\ r.url \in GIST_URLS) => ~r.busted
  /\ \A b \in Blocks : \A u \in GIST_URLS :
       dataCache[b][u].has => dataCache[b][u].data \in PayloadsOf(u)

\* fetchData of part_000 has sent the request for the news with the
\* timestamp parameter appended.
C3_Part000BustsGistUrl ==
  /\ page = "part0"
  /\ lists["P0"]["NEWS"].pc = "await"
  /\ Request("list", "P0", 0, "NEWS") \in inflight
  /\ Request("list", "P0", 0, "NEWS").busted

\* ------------------------------------------------------------------- search
SearchFinishes(k) == searches[k].pc # "done" /\ searches'[k].pc = "done"

\* q is neither null nor empty nor white space only.
NonBlank(q) == q # NullQuery /\ \E i \in 1..Len(q) : q[i] # " "

\* No build is still pushing entries into block b's index, given the index
\* and the search runs of a state.
FullyBuilt(b, index, runs) ==
  /\ index[b].set
  /\ b = "P0" =>
       \A j \in 1..MaxSearches :
         runs[j].blk = b => runs[j].pc \notin {"awaitNews", "awaitGames"}

\* idx is block b's static entries, then one entry per record of news in
\* source order, then one entry per record of games in source order.
InIndexOrder(b, idx, news, games) ==
  LET ls == Len(StaticIndex(b))
      ln == Len(news)
  IN /\ Len(idx) = ls + ln + Len(games)
     /\ \A i \in 1..ls : idx[i] = StaticIndex(b)[i]
     /\ \A i \in 1..ln :
          /\ idx[ls + i].url = [path |-> "/newswire", id |-> news[i].id]
          /\ idx[ls + i].title = news[i].title
     /\ \A i \in 1..Len(games) :
          /\ idx[ls + ln + i].url.id = games[i].id
          /\ idx[ls + ln + i].url.path \in {"/games", "/game-details"}
          /\ idx[ls + ln + i].title = games[i].title

\* The positions of idx whose searchable text contains t.
Matches(idx, t) == {i \in 1..Len(idx) : Includes(idx[i].searchable, t)}

\* res is the first min(8, m) of the m entries of idx that match t, in the
\* order of idx.
IsFirstMatches(res, idx, text) ==
  \E t \in {text} : \E M \in {Matches(idx, t)} :
    /\ Len(res) = IF Cardinality(M) < 8 THEN Cardinality(M) ELSE 8
    /\ \A j \in 1..Len(res) :
         \E p \in M :
           /\ Cardinality({i \in M : i < p}) = j - 1
           /\ res[j] = idx[p]

\* C4: over a fully built index, a search with a non-blank query q returns
\* exactly the first min(8, m) of the m entries whose searchable text
\* contains the trimmed, lowercased q, in index order: static entries, then
\* news in source order, then games in source order.
C4_FirstEightInIndexOrder ==
  [][\A k \in 1..MaxSearches :
       LET s == searches'[k]
           idx == searchIndex'[s.blk].items
       IN (SearchFinishes(k) /\ NonBlank(s.q)
             /\ FullyBuilt(s.blk, searchIndex', searches'))
            => /\ IsFirstMatches(s.result, idx, ToLowerCase(Trim(s.q)))
               /\ \E news \in NewsPayloads \cup {<<>>} :
                    \E games \in GamesPayloads \cup {<<>>} :
                      InIndexOrder(s.blk, idx, news, games)]_vars

\* A search of the second block found ten matches in an index holding four
\* news and three games and returned eight: static entries, news, one game.
C4_CappedAtEight ==
  \E k \in 1..MaxSearches :
    LET s == searches[k]
    IN /\ s.pc = "done" /\ s.blk = "B" /\ s.q = <<" ", "E">>
       /\ searchIndex["B"].set
       /\ Len(searchIndex["B"].items) = 12
       /\ Cardinality(Matches(searchIndex["B"].items, <<"e">>)) = 10
       /\ Len(s.result) = 8
       /\ s.result[4].url = [path |-> "/newswire", id |-> 1]
       /\ s.result[8].url = [path |-> "/games", id |-> 1]

\* Every entry of res has a searchable text that contains `text`.
AllContain(res, text) ==
  \E t \in {text} : \A j \in 1..Len(res) : Includes(res[j].searchable, t)

\* C5 as stated: every entry a search with query q returns has a searchable
\* text that contains lowercase(q).
C5_ResultsContainLowercasedQuery ==
  \A k \in 1..MaxSearches :
    (searches[k].pc = "done" /\ searches[k].q # NullQuery)
      => AllContain(searches[k].result, ToLowerCase(searches[k].q))

\* C5, amended: every entry a search with query q returns has a searchable
\* text that contains the trimmed, lowercased q.
C5_ResultsContainTrimmedQuery ==
  \A k \in 1..MaxSearches :
    (searches[k].pc = "done" /\ searches[k].q # NullQuery)
      => AllContain(searches[k].result, ToLowerCase(Trim(searches[k].q)))

\* The query " E" returned an entry that contains "e" but not " e".
C5_PaddedQueryMatched ==
  \E k \in 1..MaxSearches :
    /\ searches[k].pc = "done" /\ searches[k].q = <<" ", "E">>
    /\ \E j \in 1..Len(searches[k].result) :
         /\ Includes(searches[k].result[j].searchable, <<"e">>)
         /\ ~Includes(searches[k].result[j].searchable, <<" ", "e">>)

\* q is null, the empty string, or white space only.
BlankArgument(q) == q = NullQuery \/ \A i \in 1..Len(q) : q[i] = " "

SearchStarts(k) == searches[k].pc = "idle" /\ searches'[k].pc # "idle"

\* C6: a search called with an empty string, a white-space-only string or
\* null returns an empty list, builds no index and sends no request.
C6_BlankQueryReturnsEmpty ==
  [][\A k \in 1..MaxSearches :
       (SearchStarts(k) /\ BlankArgument(searches'[k].q))
         => /\ searches'[k].pc = "done"
            /\ searches'[k].result = <<>>
            /\ searches'[k].via = NoVia
            /\ searchIndex' = searchIndex
            /\ inflight' = inflight
            /\ dataCache' = dataCache]_vars

\* search(null) has returned the empty list; no index exists and no request
\* is out.
C6_NullQueryAnswered ==
  \E k \in 1..MaxSearches :
    /\ searches[k].pc = "done" /\ searches[k].q = NullQuery
    /\ searches[k].result = <<>>
    /\ ~searchIndex[searches[k].blk].set
    /\ inflight = {}

\* ------------------------------------------------------------- index build
\* Run k of the search ran buildSearchIndex to its end.
BuiltBy(k) ==
  /\ searches[k].pc = "done"
  /\ \E u \in GIST_URLS : searches[k].via[u] # "none"

\* idx holds an entry for every record of the collection data of source u.
HasEntryForEach(idx, u, data) ==
  \A i \in 1..Len(data) :
    \E p \in 1..Len(idx) :
      /\ idx[p].url.id = data[i].id
      /\ idx[p].title = data[i].title
      /\ idx[p].url.path \in
           (IF u = "NEWS" THEN {"/newswire"} ELSE {"/games", "/game-details"})

\* C7: when one source fetch of a buildSearchIndex run fails, the index it
\* returns still holds an entry for every record of the source whose fetch
\* succeeded, after the static entries.
C7_SurvivingSourceIndexed ==
  \A k \in 1..MaxSearches :
    BuiltBy(k) =>
      \A u \in GIST_URLS :
        searches[k].got[u].has =>
          /\ HasEntryForEach(searches[k].idx, u, searches[k].got[u].data)
          /\ SubSeq(searches[k].idx, 1, Len(StaticIndex(searches[k].blk)))
               = StaticIndex(searches[k].blk)

\* The second block's build received the games, then its news fetch failed:
\* the index it returned holds the static entries only.
C7_PromiseAllDropsGames ==
  \E k \in 1..MaxSearches :
    /\ BuiltBy(k) /\ searches[k].blk = "B"
    /\ searches[k].got["GAMES"].has /\ ~searches[k].got["NEWS"].has
    /\ searches[k].idx = StaticIndexB
    /\ searchIndex["B"] = IndexOf(StaticIndexB)

\* C8: once a buildSearchIndex call has completed, the index later calls
\* return is the identical one, and no later search sends a request.
C8_IndexMemoized ==
  [][\A b \in Blocks :
       (\E j \in 1..MaxSearches : BuiltBy(j) /\ searches[j].blk = b)
         => /\ searchIndex'[b] = searchIndex[b]
            /\ \A k \in 1..MaxSearches :
                 (SearchStarts(k) /\ searches'[k].blk = b)
                   => (inflight' = inflight /\ searches'[k].via = NoVia)]_vars

\* Two overlapping builds of the first block have both completed, and the
\* index of the later one, which differs, has replaced the earlier one.
C8_IndexReplaced ==
  /\ searches[1].blk = "A" /\ searches[2].blk = "A"
  /\ BuiltBy(1) /\ BuiltBy(2)
  /\ searches[1].idx # searches[2].idx
  /\ searchIndex["A"].set
  /\ searchIndex["A"].items \in {searches[1].idx, searches[2].idx}

\* ------------------------------------------------------------ list renderers
\* The cards of the first min(limit, n) of the n records of data, in order;
\* of all n records when no limit is given.
FirstCards(u, data, limit) ==
  LET n == Len(data)
      m == IF limit = NoLimit THEN n ELSE IF limit < n THEN limit ELSE n
  IN [i \in 1..m |-> Card(u, data[i])]

\* C9: a list renderer called with limit L >= 0 on a collection of n
\* records appends exactly the cards of the first min(L, n) records, in
\* source order; called without a limit it appends the cards of all n.
C9_AppendsFirstLimitCards ==
  [][\A b \in Blocks : \A u \in GIST_URLS :
       (TakesLimit(b) /\ ListFinishes(b, u) /\ lists'[b][u].outcome = "ok")
         => \A c \in lists'[b][u].into :
              containers'[c] = containers[c] \o
                FirstCards(u, dataCache'[b][u].data, lists'[b][u].limit)]_vars

\* renderNewsList(container, 0) fetched four articles and appended four
\* cards.
C9_LimitZeroAppendsAll ==
  \E b \in {"A", "B", "P0"} :
    /\ lists[b]["NEWS"].pc = "done" /\ lists[b]["NEWS"].outcome = "ok"
    /\ lists[b]["NEWS"].limit = 0
    /\ Len(lists[b]["NEWS"].appended) = 4
    /\ Len(containers["news-container"]) = 4


\* ------------------------------------------------------- failed list fetch
\* C11: when the fetch of a list renderer fails, the call appends no card,
\* the content of its container is replaced by the error message alone, the
\* other containers are left as they were, and the call ends normally.
C11_FailedFetchShowsErrorOnly ==
  [][\A b \in Blocks : \A u \in GIST_URLS :
       (ListFinishes(b, u) /\ lists'[b][u].outcome = "error")
         => /\ lists'[b][u].pc = "done"
            /\ lists'[b][u].appended = <<>>
            /\ \E c \in lists[b][u].into : containers'[c] = <<ErrorMessage(u)>>
            /\ \A c \in ContainerIds :
                 \/ containers'[c] = <<ErrorMessage(u)>>
                 \/ containers'[c] = containers[c]]_vars

\* The games fetch of the first script block failed after the second block
\* had appended its cards: the container holds the message alone.
C11_ErrorReplacedCards ==
  /\ page = "main" /\ route = "games"
  /\ lists["B"]["GAMES"].pc = "done" /\ lists["B"]["GAMES"].outcome = "ok"
  /\ lists["A"]["GAMES"].pc = "done" /\ lists["A"]["GAMES"].outcome = "error"
  /\ containers["full-games-container"] = <<ErrorMessage("GAMES")>>


\* ---------------------------------------------------------- detail renderers
\* A detail call of block b finishes in this step.
DetailFinishes(b) == detail[b].pc # "done" /\ detail'[b].pc = "done"

\* C12: when a detail renderer is given an id that loosely equals no record
\* id of the collection it fetched, it ends normally and leaves the content
\* of the page (the main region, or the detail section that stands for it
\* while the list is hidden) replaced by the "not found" message.
C12_MissingRecordShowsNotFound ==
  [][\A b \in Blocks :
       (DetailFinishes(b) /\ detail'[b].outcome = "notfound")
         => (view'.main = "notfound" \/ view'.section = "notfound")]_vars

\* renderArticleDetail("9") of src/src/js/app.js fetched the articles, found
\* none with id 9, and the main region shows the failure message of a failed
\* load.
C12_MissingArticleShowsFailure ==
  /\ page = "main" /\ route = "article" /\ urlId = <<"9">>
  /\ detail["A"].pc = "done" /\ detail["A"].outcome = "notfound"
  /\ dataCache["A"]["NEWS"].has
  /\ view.main = "failed"


\* A game renderer of block b populates the page with the game it found in
\* this step.
GameShown(b) ==
  DetailFinishes(b) /\ detail'[b].kind = "game" /\ detail'[b].outcome = "shown"

\* C13: once the game renderer has populated a found game, the
\* purchase/download control links to download_url, carries the download
\* attribute and is not styled disabled exactly when the price is 0 and a
\* download_url is present; otherwise its href is "#", it has no download
\* attribute and it is styled disabled.
C13_DownloadOnlyWhenFreeWithUrl ==
  [][\A b \in Blocks :
       GameShown(b) =>
         LET d == detail'[b]
             ctl == view'.button
         IN IF d.price = 0 /\ d.download_url # ""
              THEN ctl.href = d.download_url /\ ctl.download /\ ~ctl.disabled
              ELSE ctl.href = "#" /\ ~ctl.download /\ ctl.disabled]_vars

\* displayGameDetails of part_003 showed a game that costs 19.05: the
\* control links nowhere and is not styled disabled.
C13_PaidGameNotDisabled ==
  /\ page = "part3"
  /\ detail["P3"].pc = "done" /\ detail["P3"].outcome = "shown"
  /\ detail["P3"].price = 1905
  /\ view.button.href = "#" /\ ~view.button.download /\ ~view.button.disabled

\* The decimal digits of a text.
IsDigits(s) == \A i \in 1..Len(s) : \E k \in 1..10 : Digits[k] = s[i]

\* text is "$", the dollars of a price of `cents` without leading zeros, a
\* point, and its two-digit cents.
IsDollarText(text, cents) ==
  LET n == Len(text)
  IN /\ n >= 5
     /\ text[1] = "$"
     /\ text[n - 2] = "."
     /\ \E dollars \in {SubSeq(text, 2, n - 3)} :
        \E small \in {SubSeq(text, n - 1, n)} :
          /\ IsDigits(dollars) /\ IsDigits(small)
          /\ Len(dollars) > 1 => dollars[1] # "0"
          /\ 100 * ToNumber(dollars) + ToNumber(small) = cents

\* C14: for a found game the displayed price is "FREE" exactly when the
\* price is the number 0, and for a price above 0 it is "$" followed by the
\* price with exactly two decimal places.
C14_FreeOrTwoDecimals ==
  [][\A b \in Blocks :
       GameShown(b) =>
         LET d == detail'[b]
         IN /\ (view'.price = <<"F", "R", "E", "E">>) <=> (d.price = 0)
            /\ d.price > 0 => IsDollarText(view'.price, d.price)]_vars

\* displayGameDetails of part_000 showed a game that costs 19.05 as "$19.05".
C14_ShowsDollarsAndCents ==
  /\ page = "part0"
  /\ detail["P0"].pc = "done" /\ detail["P0"].outcome = "shown"
  /\ detail["P0"].price = 1905
  /\ view.price = <<"$", "1", "9", ".", "0", "5">>

\* The record was found by the detail call of block b that finishes in this
\* step.
RecordFound(b) ==
  DetailFinishes(b) /\ detail'[b].outcome \in {"shown", "slotmissing"}

\* The slots of the page shown that the document has.
SlotsPresent(b) ==
  LET order == SlotsOf(b, KindOn(route))
  IN {order[i] : i \in 1..Len(order)} \ {absent}

\* C18: a detail renderer that finds its record in a document lacking one of
\* the slot elements skips that slot silently: the main region is not
\* replaced by an error message and the slots that exist are populated.
C18_MissingSlotSkipped ==
  [][\A b \in Blocks :
       (RecordFound(b) /\ absent # "none" /\ view.main = "page")
         => /\ view'.main = "page"
            /\ SlotsPresent(b) \subseteq view'.filled]_vars

\* renderArticleDetail of src/src/js/app.js found the article in a document
\* without the date slot: the main region shows the failure message.
C18_MissingDateSlotFails ==
  /\ page = "main" /\ route = "article" /\ absent = "article-date"
  /\ detail["A"].pc = "done" /\ detail["A"].outcome = "slotmissing"
  /\ detail["B"].pc # "done"
  /\ view.main = "failed"


\* -------------------------------------------------------- shared components
\* C15: when the fetch of a component fails (a non-2xx response or a
\* transport failure), loadComponent writes its error message into the
\* placeholder and never invokes the callback; conversely, a placeholder
\* that shows the error message belongs to a load whose callback was not
\* invoked.
C15_FailedLoadSkipsCallback ==
  \A b \in Blocks : \A c \in Components :
    LET k == comps[b][c]
    IN k.pc = "done" =>
         /\ k.failed => (k.wrote = "message" /\ ~k.called)
         /\ k.wrote = "message" => ~k.called

\* loadComponent of src/app.js got a non-2xx response for navbar.html: the
\* body of the response is in the placeholder and the callback has run.
C15_ErrorPageInsertedAndCallbackRun ==
  /\ page = "legacy"
  /\ comps["L"]["navbar"].pc = "done" /\ comps["L"]["navbar"].failed
  /\ comps["L"]["navbar"].wrote = "errorpage"
  /\ comps["L"]["navbar"].called

\* Every load of a shared component block b starts has settled.
AllSettled(b) == \A c \in CompsOf(b) : comps[b][c].pc = "done"

\* C17: the route of a page is dispatched only after every load of a shared
\* component has settled, and it is dispatched whenever they all have
\* settled, failed loads included.
C17_DispatchAfterComponents ==
  \A b \in Blocks :
    /\ dispatched[b] => AllSettled(b)
    /\ (b \in BlocksOf(page) /\ AllSettled(b)) => dispatched[b]

\* init of part_001 has called the list renderers of the home page while
\* its navigation bar and footer are still loading.
C17_DispatchedWhileLoading ==
  /\ page = "part1" /\ route = "home"
  /\ dispatched["P1"]
  /\ lists["P1"]["NEWS"].pc = "await"
  /\ comps["P1"]["navbar"].pc = "await" /\ comps["P1"]["footer"].pc = "await"


\* -------------------------------------------------------------------- forms
\* The POST of block b's handler settles in this step.
FormSettles(b) == handler[b].pc = "await" /\ handler'[b].pc = "done"

\* C16: after a submit event the submit control is disabled and shows the
\* pending label until a response settles; when the response of a handler
\* settles, the form's content is the success message if the status is 2xx
\* and a failure message otherwise (a thrown network error included); no
\* handler sends its request a second time.
C16_MessageFollowsStatus ==
  [][\A b \in Blocks :
       /\ (handler'[b].pc = "await" /\ form'.content = "fields")
            => (form'.disabled /\ form'.label = "Sending...")
       /\ FormSettles(b) =>
            /\ form'.content =
                 (IF handler'[b].status = "ok" THEN "success" ELSE "failure")
            /\ inflight' \subseteq inflight
       /\ handler'[b].sent <= 1]_vars

\* The main contact form of part_003 was answered with a 2xx status: the
\* form still shows its fields with the control disabled, and the document
\* is leaving for index.html.
C16_RedirectInsteadOfMessage ==
  /\ page = "part3"
  /\ form.id = "main-contact-form"
  /\ handler["P3"].pc = "done" /\ handler["P3"].status = "ok"
  /\ form.content = "fields" /\ form.disabled
  /\ form.location = "index.html"


\* ------------------------------------------------------- overlapping fetches
\* fetchData(u) of search run k returns a payload in this step.
SearchReceives(k, u) == ~searches[k].got[u].has /\ searches'[k].got[u].has

\* C19: two fetchData(url) calls of a block that overlap each send their
\* own request; each caller gets the payload of its own response, which is
\* what the cache holds once that call has completed, so that after both the
\* cache holds the payload of the call that completed last; a later call
\* returns what the cache holds.
C19_LastCompletedCallFillsCache ==
  [][\A b \in Blocks : \A u \in GIST_URLS :
       HasCache(b) =>
         /\ ListSuspends(b, u) =>
              \E r \in inflight' \ inflight :
                 r.kind = "list" /\ r.blk = b /\ r.url = u
         /\ (ListFinishes(b, u) /\ lists'[b][u].outcome = "ok") =>
              \A c \in lists'[b][u].into :
                 lists'[b][u].appended =
                   CardsInto(b, u, c, dataCache'[b][u].data, lists'[b][u].limit)
         /\ \A k \in 1..MaxSearches :
              (searches'[k].blk = b /\ SearchReceives(k, u)) =>
                 /\ searches'[k].got[u] = dataCache'[b][u]
                 /\ searches'[k].via[u] = "net" =>
                      \E r \in inflight \ inflight' :
                         r.kind = "search" /\ r.k = k /\ r.url = u]_vars

\* The list renderer and the index build of one block both asked the
\* network for the news; the list got two articles, the build, answered
\* later, got four, and the cache holds the four.
C19_TwoPayloadsLastOneCached ==
  \E b \in {"A", "P0"} : \E k \in 1..MaxSearches :
    /\ lists[b]["NEWS"].pc = "done" /\ lists[b]["NEWS"].via = "net"
    /\ lists[b]["NEWS"].appended = Cards("NEWS", <<n2, n1>>)
    /\ searches[k].blk = b /\ searches[k].via["NEWS"] = "net"
    /\ searches[k].got["NEWS"].data = <<n1, n2, n3, n4>>
    /\ dataCache[b]["NEWS"].data = <<n1, n2, n3, n4>>


\* ---------------------------------------------------------------- debounce
\* An input event arrives in this step; the wrapped handler starts in it.
InputArrives == typed' = typed + 1
HandlerStarts == Len(fired') = Len(fired) + 1

\* C20: the debounced search handler has at most one timer pending; an
\* input event cancels the pending timer and sets one for itself, a full
\* window ahead; the wrapped handler starts only for the last input event,
\* one window after it, with the text that event left in the box, and starts
\* at most once for it, so a burst of events starts it once.
C20_OneStartPerBurst ==
  [][/\ Cardinality(timers') <= 1
     /\ InputArrives =>
          timers' = {[id |-> timeoutId', due |-> DebounceTicks, event |-> typed']}
     /\ HandlerStarts =>
          /\ fired'[Len(fired')] = typed
          /\ elapsed = DebounceTicks
          /\ \A i \in 1..Len(fired) : fired[i] # typed
          /\ \E k \in 1..MaxSearches :
               searches[k].pc = "idle" /\ searches'[k].pc # "idle"
                 /\ searches'[k].q = box
     /\ (typed' > 0 /\ \A i \in 1..Len(fired') : fired'[i] # typed')
          => \E t \in timers' : t.event = typed']_vars

\* Three input events came less than a window apart; the handler started
\* once, for the third, with the text in the box.
C20_BurstOfThreeStartsOnce ==
  /\ typed = 3 /\ fired = <<3>> /\ timers = {}
  /\ searches[1].pc # "idle" /\ searches[1].q = box
  /\ searches[2].pc = "idle"


\* ------------------------------------------------------------------ scroll
\* A scroll event happens in this step with a listener on the window.
ScrollHeard ==
  /\ scroll'.events = scroll.events + 1
  /\ \E b \in Blocks : Listening(b)

\* C21: after every scroll event the navbar is solid exactly when the scroll
\* position is greater than 50px; a handler run sets the state from the
\* current position, any two runs of a throttled handler are at least the
\* throttle window apart, and so the state after the last event of a burst
\* matches the final position.
C21_NavbarFollowsScroll ==
  [][ScrollHeard =>
       /\ scroll'.solid = (scroll'.y > SCROLL_THRESHOLD)
       /\ \A b \in Blocks :
            scroll'.lastRan[b] # scroll.lastRan[b] =>
              scroll'.lastRan[b] - scroll.lastRan[b] >= ThrottleTicks]_vars

\* On a page of part_000 the first scroll event of a burst left the window
\* above the threshold and the handler ran; the second, inside the throttle
\* window, brought it back to the top and was dropped: the navbar stays solid
\* at position 0.
C21_LastEventOfBurstDropped ==
  /\ page = "part0"
  /\ scroll.events = 2 /\ scroll.last = "dropped"
  /\ scroll.y = 0 /\ scroll.solid
  /\ scroll.now - scroll.lastRan["P0"] < ThrottleTicks


\* ------------------------------------------------------------------ reveal
\* The reveal step runs on element e in this step.
Reveals(e) == reveal'.els[e].runs = reveal.els[e].runs + 1

\* C22: every element observed for reveal-on-scroll starts without the
\* visible state, gains it at the first observer callback that reports it
\* intersecting, is removed from observation in that same step and never
\* loses the visible state afterwards; the reveal step runs at most once
\* per observed element.
C22_RevealedOnceThenUnobserved ==
  [][\A e \in Elements :
       /\ (reveal'.els[e].watching \ reveal.els[e].watching # {})
            => ~reveal'.els[e].visible
       /\ Reveals(e) =>
            /\ reveal'.els[e].visible
            /\ reveal'.els[e].watching = {}
            /\ reveal'.els[e].runs <= 1
       /\ reveal.els[e].visible => reveal'.els[e].visible]_vars

\* On the page of src/src/js/app.js the observers of both script blocks
\* observed the heading; each reported it intersecting and ran the reveal
\* step on it.
C22_RevealedByBothObservers ==
  /\ page = "main"
  /\ reveal.observer["A"] /\ reveal.observer["B"]
  /\ reveal.els[Heading].visible
  /\ reveal.els[Heading].runs = 2
  /\ reveal.els[Heading].watching = {}


\* -------------------------------------------------------------- mobile menu
\* A click of the given kind is handled in this step.
Clicked(what) == menu'.clicks = menu.clicks + 1 /\ menu'.last = what

\* C23: the mobile menu is open or closed; a click on the trigger changes it
\* as the trigger is defined to (opens it in block B, toggles it in the
\* other revisions), and whenever the menu is open a click on a menu link or
\* on an in-page anchor link leaves it closed, the click handler raising no
\* error.
C23_LinkClickClosesMenu ==
  [][\A b \in Blocks :
       (HasMenu(b) /\ Listening(b)) =>
         /\ Clicked("trigger") =>
              /\ menu'.open = (IF TriggerToggles(b) THEN ~menu.open ELSE TRUE)
              /\ ~menu'.threw
         /\ (Clicked("link") /\ menu.open) =>
              (~menu'.open /\ ~menu'.threw)]_vars

\* On a page of part_003 the menu was opened and an in-page anchor clicked:
\* the handler raised an error and the menu is still open.
C23_AnchorClickThrowsMenuStaysOpen ==
  /\ page = "part3"
  /\ menu.last = "link" /\ menu.threw
  /\ menu.open


\* ------------------------------------------------------------ form requests
\* The POST requests a step sends.
PostsSent == {r \in inflight' \ inflight : r.kind = "form"}

\* C24: one submit event on the contact form of the page causes exactly one
\* POST request to the form's action URL, in every revision and whatever
\* the number of script blocks that initialised the page.
C24_OneSubmitOnePost ==
  [][(form.id = "none" /\ form'.id = "main-contact-form")
       => Cardinality(PostsSent) = 1]_vars

\* On the page of src/src/js/app.js both script blocks had added their
\* submit listener to the contact form: one submit event sent two POST
\* requests, one per block.
C24_TwoBlocksBothPost ==
  /\ page = "main"
  /\ form.id = "main-contact-form"
  /\ handler["A"].sent = 1 /\ handler["B"].sent = 1
  /\ FormRequest("A", "main-contact-form") \in inflight
  /\ FormRequest("B", "main-contact-form") \in inflight


\* ---------------------------------------------------------------- home page
Min(a, b) == IF a < b THEN a ELSE b

\* Every block of the page has dispatched the home page and every list
\* call has finished with a successful fetch.
HomeRendered ==
  /\ route = "home"
  /\ \A b \in BlocksOf(page) : dispatched[b]
  /\ \A b \in BlocksOf(page) : \A u \in GIST_URLS :
       lists[b][u].pc = "done" /\ lists[b][u].outcome = "ok"

\* The container of the home page a source is rendered into.
HomeContainer(u) ==
  IF u = "NEWS" THEN "latest-news-container" ELSE "latest-games-container"

\* C25: on the home page, once initialisation and all list renders have
\* finished with successful fetches of n news and g game records, the
\* latest-news container holds exactly min(HOME_PAGE_ITEM_COUNT, n) news
\* cards and the latest-games container min(HOME_PAGE_ITEM_COUNT, g) game
\* cards, no record being rendered twice into the same container.
C25_HomeListsRenderedOnce ==
  HomeRendered =>
    \A u \in GIST_URLS :
      LET c == containers[HomeContainer(u)]
      IN /\ \A i \in 1..Len(c) : c[i].kind = "card" /\ c[i].src = u
         /\ Len(c) \in {Min(HOME_PAGE_ITEM_COUNT, Len(p)) : p \in PayloadsOf(u)}
         /\ \A b \in BlocksOf(page) :
              HasCache(b) =>
                Len(c) = Min(HOME_PAGE_ITEM_COUNT, Len(dataCache[b][u].data))
         /\ \A i, j \in 1..Len(c) : c[i].id = c[j].id => i = j

\* On the home page of src/src/js/app.js both script blocks fetched the four
\* articles and each appended the first three cards to the latest-news
\* container, which holds six.
C25_HomeCardsDoubled ==
  /\ page = "main" /\ HomeRendered
  /\ dataCache["A"]["NEWS"].data = <<n1, n2, n3, n4>>
  /\ dataCache["B"]["NEWS"].data = <<n1, n2, n3, n4>>
  /\ containers["latest-news-container"] =
       Cards("NEWS", <<n1, n2, n3>>) \o Cards("NEWS", <<n1, n2, n3>>)


\* ------------------------------------------------- search during the build
\* C26: a search started while the index is still being built returns the
\* entries the same query returns once the build has completed; no search
\* result is computed from a partially built index.
C26_NoResultFromPartialIndex ==
  [][\A k \in 1..MaxSearches :
       (SearchFinishes(k) /\ NonBlank(searches'[k].q)) =>
         LET b == searches'[k].blk
         IN /\ FullyBuilt(b, searchIndex', searches')
            /\ searches'[k].result =
                 FilterResults(searchIndex'[b].items, searches'[k].q)]_vars

\* On a page of part_000 the second search ran while the build of the
\* first was waiting for the news: it filtered the static entries only.
\* Both searches had the same query; the first, answered after the build,
\* returned other entries than the second.
C26_SearchedStaticEntriesOnly ==
  /\ page = "part0"
  /\ BuiltBy(1) /\ searches[2].pc = "done"
  /\ searches[2].via = NoVia
  /\ searches[1].q = searches[2].q /\ NonBlank(searches[2].q)
  /\ searches[2].result = FilterResults(StaticIndexP0, searches[2].q)
  /\ searches[1].result = FilterResults(searchIndex["P0"].items, searches[1].q)
  /\ searches[1].result # searches[2].result


\* ----------------------------------------------------------- search results
\* Every search the input handler started has completed and no timer of
\* the debounce is pending.
SearchQuiet ==
  /\ timers = {} /\ Len(fired) >= 1
  /\ \A k \in 1..MaxSearches : searches[k].pc \in {"idle", "done"}

\* C27: once every started search has completed and no debounce timer is
\* pending, the result list shown is the result of searching the most
\* recent input value; results of an earlier query never overwrite those of
\* a later one, whatever the order in which the fetches of overlapping
\* searches return.
C27_LatestQueryShown ==
  SearchQuiet =>
    LET last == Len(fired)
    IN /\ searches[last].q = box
       /\ panel.of = last
       /\ panel.list = searches[last].result
       /\ panel.shown = (searches[last].result # <<>>)

\* The visitor typed " E" and then replaced it by a blank; the search for
\* the blank returned at once and hid the container, then the fetches of
\* the first search returned: the container shows the results for " E"
\* while the box holds the blank.
C27_EarlierResultsOverwroteLater ==
  /\ SearchQuiet /\ Len(fired) = 2
  /\ box = <<" ">> /\ searches[2].q = box /\ searches[2].result = <<>>
  /\ searches[1].q = <<" ", "E">>
  /\ panel.of = 1 /\ panel.shown
  /\ panel.list = searches[1].result /\ panel.list # <<>>


\* C28: after the Escape key is pressed in the search box, or a click
\* lands outside the box and the results container, the results container
\* stays hidden until the next input event, also when a debounce timer is
\* pending or a search is in flight at that moment.
C28_DismissedStaysHidden == panel.dismissed => ~panel.shown

\* Escape was pressed while the fetches of a search were in flight: the
\* box is empty and no input event followed, yet the search has completed
\* and its results are shown.
C28_ShownAgainAfterEscape ==
  /\ panel.dismissed /\ box = <<>>
  /\ timers = {}
  /\ panel.shown /\ panel.list # <<>>
  /\ panel.of = 1 /\ searches[1].pc = "done" /\ NonBlank(searches[1].q)


\* -------------------------------------------------------------------- links
\* The search-index entry block b makes for a record of source u.
EntryFor(b, u, rec) == IF u = "NEWS" THEN NewsEntry(rec) ELSE GameEntry(b, rec)

\* C29: for every news or game record with an id, the URL of its
\* search-index entry equals the URL its list card links to, and the route
\* dispatch run on that URL calls the detail renderer of the record's kind,
\* which finds the record by the id in the URL.
C29_IndexUrlReachesDetail ==
  \A b \in Blocks : \A u \in GIST_URLS :
    (HasSearch(b) /\ searchIndex[b].set /\ dataCache[b][u].has) =>
      \A i \in 1..Len(dataCache[b][u].data) :
        LET rec == dataCache[b][u].data[i]
            e == EntryFor(b, u, rec)
        IN (rec.id # NoId /\ \E p \in 1..Len(searchIndex[b].items) :
                                 searchIndex[b].items[p] = e) =>
             /\ e.url = CardHref(b, u, rec)
             /\ RouteOf(b, e.url) = (IF u = "NEWS" THEN "article" ELSE "game")
             /\ FindById(dataCache[b][u].data, ToDecimal(e.url.id)).at = i

\* The index of part_000 holds the entry of article n1 with the address
\* /newswire?id=1; the card of n1 links to /newswire.html?id=1, and the
\* route dispatch of part_000 takes the home page branch for the address of
\* the entry.
C29_Part000EntryMissesDetail ==
  /\ page = "part0" /\ searchIndex["P0"].set
  /\ \E p \in 1..Len(searchIndex["P0"].items) :
       searchIndex["P0"].items[p] = NewsEntry(n1)
  /\ NewsEntry(n1).url # CardHref("P0", "NEWS", n1)
  /\ RouteOf("P0", NewsEntry(n1).url) = "home"
  /\ RouteOf("P0", CardHref("P0", "NEWS", n1)) = "article"


\* ------------------------------------------------------- cards and observer
\* A list renderer of block b creates the cards of source u in this step.
CardCreated(b, u) ==
  ~reveal.els[<<b, u>>].exists /\ reveal'.els[<<b, u>>].exists

\* C30: in the revisions with reveal-on-scroll the observer of a block
\* exists before any of its list renderers creates a card, in every
\* interleaving of component loads and fetches, so every card, which
\* carries the class reveal-on-scroll and not the class visible, is
\* observed by it from its creation.
C30_CardsObservedAtCreation ==
  [][\A b \in Blocks : \A u \in GIST_URLS :
       (HasReveal(b) /\ CardCreated(b, u)) =>
         LET card == reveal'.els[<<b, u>>]
         IN /\ reveal'.observer[b]
            /\ b \in card.watching
            /\ card.hidden /\ ~card.visible]_vars

\* On the home page of part_000 the news list has been rendered: its
\* cards are hidden and observed by the observer of the block, created
\* when the components had loaded.
C30_HomeCardsObserved ==
  /\ page = "part0" /\ route = "home"
  /\ lists["P0"]["NEWS"].pc = "done" /\ lists["P0"]["NEWS"].outcome = "ok"
  /\ reveal.observer["P0"]
  /\ reveal.els[<<"P0", "NEWS">>].exists
  /\ reveal.els[<<"P0", "NEWS">>].watching = {"P0"}
  /\ reveal.els[<<"P0", "NEWS">>].hidden
====
